---- MODULE Spec2Model ----
(***************************************************************************)
(* Shapley value engine of shapley-hri-attribution (lib/shapley.ts) and    *)
(* the causal model that supplies its value function (lib/simulation.ts).  *)
(*                                                                         *)
(* Numbers: the value function returns integers, read as hundredths        *)
(* (0.15 is 15).  The engine's products, quotients and sums are carried    *)
(* out exactly, on normalised fractions <<numerator, denominator>>, so     *)
(* the statements about the engine's values are statements about the      *)
(* exact arithmetic of the code.  Where rounding decides (the order in     *)
(* which createValueFunction adds its terms), the sum is also carried out  *)
(* in IEEE 754 doubles: see createValueFunctionDouble.                     *)
(***************************************************************************)
EXTENDS Integers, Sequences, FiniteSets, TLC

\* ------------------------------------------------------------------ bounds
MaxSum == 2         \* largest total of the values of a drawn value function
MaxBase == 1        \* largest base effect of a drawn causal model
MaxValue == 1       \* largest whole value of a drawn result
MaxDelta == 3       \* largest offset of a drawn result's value, in halves of epsilon
MaxMissing == 1     \* most coalitions a drawn value function fails on
MaxInteractions == 2 \* most interactions of a drawn causal model
MaxArgument == 4    \* largest argument of a followed call of factorial
MaxListed == 2      \* most interactions of a causal model handed to the engine
MaxTrials == 3      \* largest numTrials of a drawn SimulationConfig

\* --------------------------------------------------------------- the types
ComponentIds == {"robotEngagement", "adaptiveDifficulty", "caregiverInvolvement", "gameScaffolding"}

ALL_COMPONENTS == <<"robotEngagement", "adaptiveDifficulty", "caregiverInvolvement", "gameScaffolding">>

Coalitions == SUBSET ComponentIds

\* no causal model, no result yet, no coalitions yet
NoModel == [baseEffects |-> << >>, interactions |-> << >>]

NoResult == [values |-> << >>, totalValue |-> 0, interactionValue |-> 0]

NoCoalitions == << >>

Range(s) == {s[i] : i \in DOMAIN s}

\* the lists of distinct component identifiers
DistinctLists == {s \in UNION {[1..k -> ComponentIds] : k \in 0..Cardinality(ComponentIds)} :
                    \A i, j \in DOMAIN s : i # j => s[i] # s[j]}

\* -------------------------------------------------------- exact arithmetic
Abs(x) == IF x < 0 THEN -x ELSE x

RECURSIVE GCD(_, _)
GCD(a, b) == IF b = 0 THEN a ELSE GCD(b, a % b)

\* the fraction p/q (q # 0) in lowest terms with a positive denominator
Frac(p, q) ==
    LET g == GCD(Abs(p), Abs(q))
        sgn == IF q < 0 THEN -1 ELSE 1
    IN <<sgn * (p \div g), sgn * (q \div g)>>

FracOfInt(k) == <<k, 1>>

FracAdd(x, y) == Frac(x[1] * y[2] + y[1] * x[2], x[2] * y[2])

FracMul(x, y) == Frac(x[1] * y[1], x[2] * y[2])

Zero == FracOfInt(0)

\* ----------------------------------------------------------------- powerSet
\* 1 << n on 32-bit integers
ShiftLeftOne(n) == IF n % 32 = 31 THEN -(2 ^ 31) ELSE 2 ^ (n % 32)

\* mask & (1 << i), as a truth value, for 0 <= mask < 2^31 and 0 <= i < 31
BitIsSet(mask, i) == (mask \div (2 ^ i)) % 2 = 1

\* SubsetOfMask reading the mask from its high end: mask & (1 << (n - 1 - i))
RECURSIVE SubsetOfMaskHighFirst(_, _, _)
SubsetOfMaskHighFirst(set, mask, i) ==
    IF i >= Len(set) THEN <<>>
    ELSE IF BitIsSet(mask, Len(set) - 1 - i)
         THEN <<set[i + 1]>> \o SubsetOfMaskHighFirst(set, mask, i + 1)
         ELSE SubsetOfMaskHighFirst(set, mask, i + 1)

\* the inner loop of powerSet: the members of set picked by mask, from index i on
RECURSIVE SubsetOfMask(_, _, _)
SubsetOfMask(set, mask, i) ==
    IF i >= Len(set) THEN <<>>
    ELSE IF BitIsSet(mask, i)
         THEN <<set[i + 1]>> \o SubsetOfMask(set, mask, i + 1)
         ELSE SubsetOfMask(set, mask, i + 1)

\* PowerSetFrom with the loop bound one too small: mask < (1 << n) - 1
RECURSIVE PowerSetFromShort(_, _)
PowerSetFromShort(set, mask) ==
    IF mask < ShiftLeftOne(Len(set)) - 1
    THEN <<SubsetOfMask(set, mask, 0)>> \o PowerSetFromShort(set, mask + 1)
    ELSE << >>

\* the outer loop of powerSet, from mask on: the subsets it yields, in order
RECURSIVE PowerSetFrom(_, _)
PowerSetFrom(set, mask) ==
    IF mask < ShiftLeftOne(Len(set))
    THEN <<SubsetOfMask(set, mask, 0)>> \o PowerSetFrom(set, mask + 1)
    ELSE << >>

powerSet(set) == PowerSetFrom(set, 0)

getAllCoalitions(components) ==
    LET subsets == powerSet(components)
    IN [j \in DOMAIN subsets |-> Range(subsets[j])]

\* ---------------------------------------------------------------- factorial
\* factorial with the base case returning n: if (n <= 1) return n
RECURSIVE factorialBaseN(_, _)
factorialBaseN(cache, n) ==
    IF n <= 1 THEN [value |-> n, cache |-> cache]
    ELSE IF n \in DOMAIN cache THEN [value |-> cache[n], cache |-> cache]
    ELSE LET r == factorialBaseN(cache, n - 1)
             result == n * r.value
         IN [value |-> result, cache |-> (n :> result) @@ r.cache]

\* factorial storing its result one key too low: factorialCache.set(n - 1, result)
RECURSIVE factorialKeyBelow(_, _)
factorialKeyBelow(cache, n) ==
    IF n <= 1 THEN [value |-> 1, cache |-> cache]
    ELSE IF n \in DOMAIN cache THEN [value |-> cache[n], cache |-> cache]
    ELSE LET r == factorialKeyBelow(cache, n - 1)
             result == n * r.value
         IN [value |-> result,
             cache |-> ((n - 1) :> result) @@ r.cache]

\* factorial(n) on the cache: the value it returns and the cache it leaves
RECURSIVE factorial(_, _)
factorial(cache, n) ==
    IF n <= 1 THEN [value |-> 1, cache |-> cache]
    ELSE IF n \in DOMAIN cache THEN [value |-> cache[n], cache |-> cache]
    ELSE LET r == factorial(cache, n - 1)
             result == n * r.value
         IN [value |-> result,
             cache |-> (n :> result) @@ r.cache]

\* ----------------------------------------------- computeShapleyForComponent
\* WeightStep dividing by the factorial of the number of other components:
\* factorial(n - 1)
WeightStepOthers(cache, s, n) ==
    LET f1 == factorial(cache, s)
        f2 == factorial(f1.cache, n - s - 1)
        f3 == factorial(f2.cache, n - 1)
    IN [weight |-> Frac(f1.value * f2.value, f3.value), cache |-> f3.cache]

\* WeightStep with the second factor off by one: factorial(n - s)
WeightStepOffByOne(cache, s, n) ==
    LET f1 == factorial(cache, s)
        f2 == factorial(f1.cache, n - s)
        f3 == factorial(f2.cache, n)
    IN [weight |-> Frac(f1.value * f2.value, f3.value), cache |-> f3.cache]

\* WeightStep counting the evaluated component into the coalition:
\* factorial(s + 1)
WeightStepWithComponent(cache, s, n) ==
    LET f1 == factorial(cache, s + 1)
        f2 == factorial(f1.cache, n - s - 1)
        f3 == factorial(f2.cache, n)
    IN [weight |-> Frac(f1.value * f2.value, f3.value), cache |-> f3.cache]

\* weight = (factorial(s) * factorial(n - s - 1)) / factorial(n), the three
\* calls made in the order the expression evaluates them
WeightStep(cache, s, n) ==
    LET f1 == factorial(cache, s)
        f2 == factorial(f1.cache, n - s - 1)
        f3 == factorial(f2.cache, n)
    IN [weight |-> Frac(f1.value * f2.value, f3.value), cache |-> f3.cache]

\* nothing thrown; a failure of the value function on a coalition is <<coalition>>
NoError == << >>

\* ShapleyLoop with the marginal contribution measured against the empty
\* coalition: valueFunction(coalitionWith) - valueFunction(new Set())
RECURSIVE ShapleyLoopFromEmpty(_, _, _, _, _, _, _)
ShapleyLoopFromEmpty(component, n, subsets, k, vf, shapleyValue, cache) ==
    IF k > Len(subsets)
    THEN [value |-> shapleyValue, cache |-> cache, calls |-> 0, factorials |-> 0, thrown |-> NoError]
    ELSE LET subset == subsets[k]
             s == Len(subset)
             w == WeightStep(cache, s, n)
             coalitionWith == Range(subset) \cup {component}
         IN IF coalitionWith \notin DOMAIN vf
            THEN [value |-> shapleyValue, cache |-> w.cache, calls |-> 1, factorials |-> 3,
                  thrown |-> <<coalitionWith>>]
            ELSE IF {} \notin DOMAIN vf
            THEN [value |-> shapleyValue, cache |-> w.cache, calls |-> 2, factorials |-> 3,
                  thrown |-> << {} >>]
            ELSE LET marginalContribution == vf[coalitionWith] - vf[{}]
                     rest == ShapleyLoopFromEmpty(component, n, subsets, k + 1, vf,
                                FracAdd(shapleyValue, FracMul(w.weight, FracOfInt(marginalContribution))),
                                w.cache)
                 IN [rest EXCEPT !.calls = @ + 2, !.factorials = @ + 3]

\* ShapleyLoop with the value function's results remembered: a coalition
\* already evaluated for this component is not evaluated again (here: the
\* empty coalition's value is looked up once, before the loop)
RECURSIVE ShapleyLoopCached(_, _, _, _, _, _, _)
ShapleyLoopCached(component, n, subsets, k, vf, shapleyValue, cache) ==
    IF k > Len(subsets)
    THEN [value |-> shapleyValue, cache |-> cache, calls |-> 0, factorials |-> 0, thrown |-> NoError]
    ELSE LET subset == subsets[k]
             s == Len(subset)
             w == WeightStep(cache, s, n)
             coalitionWithout == Range(subset)
             coalitionWith == Range(subset) \cup {component}
         IN IF coalitionWith \notin DOMAIN vf
            THEN [value |-> shapleyValue, cache |-> w.cache, calls |-> 1, factorials |-> 3,
                  thrown |-> <<coalitionWith>>]
            ELSE IF coalitionWithout \notin DOMAIN vf
            THEN [value |-> shapleyValue, cache |-> w.cache, calls |-> 2, factorials |-> 3,
                  thrown |-> <<coalitionWithout>>]
            ELSE LET marginalContribution == vf[coalitionWith] - vf[coalitionWithout]
                     rest == ShapleyLoopCached(component, n, subsets, k + 1, vf,
                                FracAdd(shapleyValue, FracMul(w.weight, FracOfInt(marginalContribution))),
                                w.cache)
                 IN [rest EXCEPT !.calls = @ + (IF k = 1 THEN 2 ELSE 1), !.factorials = @ + 3]

\* the loop over the subsets of othersWithoutComponent, from the k-th on:
\* the value accumulated, the cache left, the number of calls of the value
\* function and of factorial made, and the failure of the value function, if
\* it failed (a value function fails on the coalitions outside its domain;
\* nothing catches the failure, so it ends the loop)
RECURSIVE ShapleyLoop(_, _, _, _, _, _, _)
ShapleyLoop(component, n, subsets, k, vf, shapleyValue, cache) ==
    IF k > Len(subsets)
    THEN [value |-> shapleyValue, cache |-> cache, calls |-> 0, factorials |-> 0, thrown |-> NoError]
    ELSE LET subset == subsets[k]
             s == Len(subset)
             w == WeightStep(cache, s, n)
             coalitionWithout == Range(subset)
             coalitionWith == Range(subset) \cup {component}
         IN IF coalitionWith \notin DOMAIN vf
            THEN [value |-> shapleyValue, cache |-> w.cache, calls |-> 1, factorials |-> 3,
                  thrown |-> <<coalitionWith>>]
            ELSE IF coalitionWithout \notin DOMAIN vf
            THEN [value |-> shapleyValue, cache |-> w.cache, calls |-> 2, factorials |-> 3,
                  thrown |-> <<coalitionWithout>>]
            ELSE LET marginalContribution == vf[coalitionWith] - vf[coalitionWithout]
                     rest == ShapleyLoop(component, n, subsets, k + 1, vf,
                                FracAdd(shapleyValue, FracMul(w.weight, FracOfInt(marginalContribution))),
                                w.cache)
                 IN [rest EXCEPT !.calls = @ + 2, !.factorials = @ + 3]

computeShapleyForComponent(component, allComponents, vf, cache) ==
    LET n == Len(allComponents)
        othersWithoutComponent == SelectSeq(allComponents, LAMBDA c : c # component)
    IN ShapleyLoop(component, n, powerSet(othersWithoutComponent), 1, vf, Zero, cache)

\* ----------------------------------------------------- computeShapleyValues
NoCalls == [c \in ComponentIds |-> 0]

\* ValuesLoop with the running sum never reset: each component's value is
\* added to the value of the component before it
RECURSIVE ValuesLoopCarry(_, _, _, _, _)
ValuesLoopCarry(active, k, vf, values, cache) ==
    IF k > Len(active)
    THEN [values |-> values, cache |-> cache, calls |-> NoCalls, factorials |-> 0, thrown |-> NoError]
    ELSE LET r == computeShapleyForComponent(active[k], active, vf, cache)
             carried == IF k = 1 THEN Zero ELSE values[active[k - 1]]
         IN IF r.thrown # NoError
            THEN [values |-> values, cache |-> r.cache,
                  calls |-> [NoCalls EXCEPT ![active[k]] = r.calls],
                  factorials |-> r.factorials, thrown |-> r.thrown]
            ELSE LET rest == ValuesLoopCarry(active, k + 1, vf,
                                [values EXCEPT ![active[k]] = FracAdd(carried, r.value)], r.cache)
                 IN [rest EXCEPT !.calls[active[k]] = @ + r.calls, !.factorials = @ + r.factorials]

\* ValuesLoop stopping one component early: k < activeComponents.length - 1
RECURSIVE ValuesLoopButLast(_, _, _, _, _)
ValuesLoopButLast(active, k, vf, values, cache) ==
    IF k >= Len(active)
    THEN [values |-> values, cache |-> cache, calls |-> NoCalls, factorials |-> 0, thrown |-> NoError]
    ELSE LET r == computeShapleyForComponent(active[k], active, vf, cache)
         IN IF r.thrown # NoError
            THEN [values |-> values, cache |-> r.cache,
                  calls |-> [NoCalls EXCEPT ![active[k]] = r.calls],
                  factorials |-> r.factorials, thrown |-> r.thrown]
            ELSE LET rest == ValuesLoopButLast(active, k + 1, vf,
                                [values EXCEPT ![active[k]] = r.value], r.cache)
                 IN [rest EXCEPT !.calls[active[k]] = @ + r.calls, !.factorials = @ + r.factorials]

\* the loop over activeComponents, from the k-th on: the values assigned, the
\* cache left, the calls of the value function made for each component, the
\* calls of factorial made, and the failure that ended the loop, if any
RECURSIVE ValuesLoop(_, _, _, _, _)
ValuesLoop(active, k, vf, values, cache) ==
    IF k > Len(active)
    THEN [values |-> values, cache |-> cache, calls |-> NoCalls, factorials |-> 0, thrown |-> NoError]
    ELSE LET r == computeShapleyForComponent(active[k], active, vf, cache)
         IN IF r.thrown # NoError
            THEN [values |-> values, cache |-> r.cache,
                  calls |-> [NoCalls EXCEPT ![active[k]] = r.calls],
                  factorials |-> r.factorials, thrown |-> r.thrown]
            ELSE LET rest == ValuesLoop(active, k + 1, vf,
                                [values EXCEPT ![active[k]] = r.value], r.cache)
                 IN [rest EXCEPT !.calls[active[k]] = @ + r.calls, !.factorials = @ + r.factorials]

\* SumOfIndividualEffects that leaves the first component out
RECURSIVE SumOfIndividualEffectsSkipFirst(_, _, _)
SumOfIndividualEffectsSkipFirst(active, k, vf) ==
    IF k > Len(active) THEN 0
    ELSE (IF k = 1 THEN 0 ELSE vf[{active[k]}])
         + SumOfIndividualEffectsSkipFirst(active, k + 1, vf)

\* activeComponents.reduce((sum, comp) => sum + valueFunction({comp}), 0)
RECURSIVE SumOfIndividualEffects(_, _, _)
SumOfIndividualEffects(active, k, vf) ==
    IF k > Len(active) THEN 0
    ELSE vf[{active[k]}] + SumOfIndividualEffects(active, k + 1, vf)

\* the positions of the active components on whose singleton the value
\* function fails
FailingSingletons(active, vf) == {k \in DOMAIN active : {active[k]} \notin DOMAIN vf}

Min(S) == CHOOSE x \in S : \A y \in S : x <= y

\* what computeShapleyValues does once the loop is done: totalValue, the sum
\* of the individual effects, interactionValue and the result, or the
\* failure of the value function on the way
Aggregate(active, vf, loop, totalCoalition, sumOfIndividualEffects, interactionSign) ==
    LET failing == FailingSingletons(active, vf)
    IN IF loop.thrown # NoError
       THEN [result |-> NoResult, cache |-> loop.cache, calls |-> loop.calls, finalCalls |-> 0,
             factorials |-> loop.factorials, thrown |-> loop.thrown]
       ELSE IF totalCoalition \notin DOMAIN vf
       THEN [result |-> NoResult, cache |-> loop.cache, calls |-> loop.calls, finalCalls |-> 1,
             factorials |-> loop.factorials, thrown |-> <<totalCoalition>>]
       ELSE IF failing # {}
       THEN [result |-> NoResult, cache |-> loop.cache, calls |-> loop.calls,
             finalCalls |-> 1 + Min(failing),
             factorials |-> loop.factorials, thrown |-> <<{active[Min(failing)]}>>]
       ELSE LET totalValue == vf[totalCoalition]
                interactionValue == interactionSign * (totalValue - sumOfIndividualEffects)
            IN [result |-> [values |-> loop.values,
                            totalValue |-> totalValue,
                            interactionValue |-> interactionValue],
                cache |-> loop.cache, calls |-> loop.calls, finalCalls |-> 1 + Len(active),
                factorials |-> loop.factorials, thrown |-> NoError]

\* the loop of computeShapleyValues run over ALL_COMPONENTS, from the k-th on
RECURSIVE ValuesLoopAll(_, _, _, _, _)
ValuesLoopAll(active, k, vf, values, cache) ==
    IF k > Len(ALL_COMPONENTS)
    THEN [values |-> values, cache |-> cache, calls |-> NoCalls, factorials |-> 0, thrown |-> NoError]
    ELSE LET r == computeShapleyForComponent(ALL_COMPONENTS[k], active, vf, cache)
         IN IF r.thrown # NoError
            THEN [values |-> values, cache |-> r.cache,
                  calls |-> [NoCalls EXCEPT ![ALL_COMPONENTS[k]] = r.calls],
                  factorials |-> r.factorials, thrown |-> r.thrown]
            ELSE LET rest == ValuesLoopAll(active, k + 1, vf,
                                [values EXCEPT ![ALL_COMPONENTS[k]] = r.value], r.cache)
                 IN [rest EXCEPT !.calls[ALL_COMPONENTS[k]] = @ + r.calls, !.factorials = @ + r.factorials]

\* computeShapleyValues with the loop running over ALL_COMPONENTS, not over
\* the active list
computeShapleyValuesAllComponents(active, vf, cache) ==
    Aggregate(active, vf, ValuesLoopAll(active, 1, vf, [c \in ComponentIds |-> Zero], cache),
              Range(active), SumOfIndividualEffects(active, 1, vf), 1)

\* computeShapleyValues with the grand coalition taken to be all four
\* components: new Set(ALL_COMPONENTS)
computeShapleyValuesAllGrand(active, vf, cache) ==
    Aggregate(active, vf, ValuesLoop(active, 1, vf, [c \in ComponentIds |-> Zero], cache),
              ComponentIds, SumOfIndividualEffects(active, 1, vf), 1)

\* computeShapleyValues with the subtraction turned round:
\* interactionValue = sumOfIndividualEffects - totalValue
computeShapleyValuesTurned(active, vf, cache) ==
    Aggregate(active, vf, ValuesLoop(active, 1, vf, [c \in ComponentIds |-> Zero], cache),
              Range(active), SumOfIndividualEffects(active, 1, vf), -1)

\* computeShapleyValues with an early return for the empty list that gives
\* the empty game the total 0
computeShapleyValuesEmptyZero(active, vf, cache) ==
    IF active = << >>
    THEN [result |-> [values |-> [c \in ComponentIds |-> Zero], totalValue |-> 0, interactionValue |-> 0],
          cache |-> cache, calls |-> NoCalls, finalCalls |-> 0, factorials |-> 0, thrown |-> NoError]
    ELSE Aggregate(active, vf, ValuesLoop(active, 1, vf, [c \in ComponentIds |-> Zero], cache),
                   Range(active), SumOfIndividualEffects(active, 1, vf), 1)

\* computeShapleyValues with the value function's failure caught and an
\* all-zero result returned in its place
computeShapleyValuesCatching(active, vf, cache) ==
    LET r == Aggregate(active, vf, ValuesLoop(active, 1, vf, [c \in ComponentIds |-> Zero], cache),
                       Range(active), SumOfIndividualEffects(active, 1, vf), 1)
    IN IF r.thrown # NoError
       THEN [r EXCEPT !.result = [values |-> [c \in ComponentIds |-> Zero],
                                   totalValue |-> 0, interactionValue |-> 0],
                      !.thrown = NoError]
       ELSE r

\* the result of the call, the cache it leaves, the calls of the value
\* function it made for each component (calls) and after the loop
\* (finalCalls), the calls of factorial it made, and the failure of the value
\* function that reached the caller, if any
computeShapleyValues(active, vf, cache) ==
    LET loop == ValuesLoop(active, 1, vf, [c \in ComponentIds |-> Zero], cache)
        grandCoalition == Range(active)
        sumOfIndividualEffects == SumOfIndividualEffects(active, 1, vf)
    IN Aggregate(active, vf, loop, grandCoalition, sumOfIndividualEffects, 1)

\* ---------------------------------------------------- verifyEfficiencyAxiom
\* const epsilon = 1e-10, in the model's unit of hundredths: 1e-8
epsilon == <<1, 100000000>>

\* x < epsilon for a normalised fraction x >= 0: x[1] * epsilon[2] < x[2],
\* computed without the product
LessThanEpsilon(x) == x[1] <= (x[2] - 1) \div epsilon[2]

\* Math.abs
FracAbs(x) == <<Abs(x[1]), x[2]>>

\* Object.values(values).reduce((a, b) => a + b, 0), from the k-th key on
RECURSIVE ReduceValues(_, _, _)
ReduceValues(values, k, a) ==
    IF k > Len(ALL_COMPONENTS) THEN a
    ELSE ReduceValues(values, k + 1, FracAdd(a, values[ALL_COMPONENTS[k]]))

\* verifyEfficiencyAxiom with the comparison made without Math.abs
verifyEfficiencyAxiomSigned(result) ==
    LET sumOfShapley == ReduceValues(result.values, 1, Zero)
        difference == FracAdd(sumOfShapley, FracOfInt(-result.totalValue))
    IN difference[1] < 0 \/ LessThanEpsilon(difference)

\* verifyEfficiencyAxiom with a tolerance of a whole hundredth
verifyEfficiencyAxiomLoose(result) ==
    LET sumOfShapley == ReduceValues(result.values, 1, Zero)
        difference == FracAdd(sumOfShapley, FracOfInt(-result.totalValue))
    IN FracAbs(difference)[1] <= FracAbs(difference)[2]

verifyEfficiencyAxiom(result) ==
    LET sumOfShapley == ReduceValues(result.values, 1, Zero)
        difference == FracAdd(sumOfShapley, FracOfInt(-result.totalValue))
    IN LessThanEpsilon(FracAbs(difference))

\* ------------------------------------------------------ createValueFunction
DEFAULT_CAUSAL_MODEL ==
    [baseEffects |-> [c \in ComponentIds |->
                        CASE c = "robotEngagement" -> 15
                          [] c = "adaptiveDifficulty" -> 18
                          [] c = "caregiverInvolvement" -> 10
                          [] c = "gameScaffolding" -> 12],
     interactions |-> << [components |-> <<"robotEngagement", "adaptiveDifficulty">>, effect |-> 20],
                         [components |-> <<"robotEngagement", "caregiverInvolvement">>, effect |-> 12],
                         [components |-> <<"gameScaffolding", "adaptiveDifficulty">>, effect |-> 8] >>]

\* the two-component game of the robotPlusAdaptive scenario: base effects
\* 0.15 and 0.20, interaction 0.10
robotPlusAdaptive ==
    [baseEffects |-> [c \in ComponentIds |->
                        CASE c = "robotEngagement" -> 15
                          [] c = "adaptiveDifficulty" -> 20
                          [] OTHER -> 0],
     interactions |-> << [components |-> <<"robotEngagement", "adaptiveDifficulty">>, effect |-> 10] >>]

\* for (const component of coalition) value += model.baseEffects[component]
RECURSIVE SumBaseEffects(_, _)
SumBaseEffects(model, coalition) ==
    IF coalition = {} THEN 0
    ELSE LET c == CHOOSE x \in coalition : TRUE
         IN model.baseEffects[c] + SumBaseEffects(model, coalition \ {c})

\* SumInteractions with the test coalition.has(comp1) || coalition.has(comp2)
RECURSIVE SumInteractionsEither(_, _, _)
SumInteractionsEither(model, coalition, k) ==
    IF k > Len(model.interactions) THEN 0
    ELSE LET interaction == model.interactions[k]
             comp1 == interaction.components[1]
             comp2 == interaction.components[2]
         IN (IF comp1 \in coalition \/ comp2 \in coalition THEN interaction.effect ELSE 0)
            + SumInteractionsEither(model, coalition, k + 1)

\* for (const interaction of model.interactions) ..., from the k-th on
RECURSIVE SumInteractions(_, _, _)
SumInteractions(model, coalition, k) ==
    IF k > Len(model.interactions) THEN 0
    ELSE LET interaction == model.interactions[k]
             comp1 == interaction.components[1]
             comp2 == interaction.components[2]
         IN (IF comp1 \in coalition /\ comp2 \in coalition THEN interaction.effect ELSE 0)
            + SumInteractions(model, coalition, k + 1)

\* createValueFunction without the loop over the interactions
createValueFunctionBaseOnly(model) ==
    [coalition \in Coalitions |-> SumBaseEffects(model, coalition)]

createValueFunction(model) ==
    [coalition \in Coalitions |->
        SumBaseEffects(model, coalition) + SumInteractions(model, coalition, 1)]

\* ------------------------------------------- the value function in doubles
\* A JavaScript number is an IEEE 754 double. A positive double is modelled
\* as its 53 significand bits, lowest first, and the exponent of the lowest
\* bit; 0 has no bits. (The engine's own sums are modelled exactly, above.)
DoubleZero == [bits |-> << >>, exp |-> 0]

RECURSIVE BitsOf(_, _)
BitsOf(k, width) ==
    IF width = 0 THEN << >> ELSE <<k % 2>> \o BitsOf(k \div 2, width - 1)

\* the double with the significand hi * 2^26 + lo
DoubleFrom(hi, lo, exp) == [bits |-> BitsOf(lo, 26) \o BitsOf(hi, 27), exp |-> exp]

\* the doubles the literals of the causal models denote: 0.08, 0.10, 0.12,
\* 0.15, 0.18 and 0.20 rounded to the nearest double, by their hundredths
DoubleOfLiteral(hundredths) ==
    CASE hundredths = 0 -> DoubleZero
      [] hundredths = 8 -> DoubleFrom(85899345, 61740155, -56)
      [] hundredths = 10 -> DoubleFrom(107374182, 26843546, -56)
      [] hundredths = 12 -> DoubleFrom(128849018, 59055800, -56)
      [] hundredths = 15 -> DoubleFrom(80530636, 53687091, -55)
      [] hundredths = 18 -> DoubleFrom(96636764, 10737418, -55)
      [] hundredths = 20 -> DoubleFrom(107374182, 26843546, -55)

\* the sum of two bit strings from their i-th bits on, with a carry
RECURSIVE AddBits(_, _, _, _)
AddBits(a, b, i, carry) ==
    IF i > Len(a) /\ i > Len(b)
    THEN IF carry = 1 THEN <<1>> ELSE << >>
    ELSE LET t == (IF i <= Len(a) THEN a[i] ELSE 0) + (IF i <= Len(b) THEN b[i] ELSE 0) + carry
         IN <<t % 2>> \o AddBits(a, b, i + 1, t \div 2)

ShiftLeft(bits, d) == [i \in 1..d |-> 0] \o bits

\* a bit string of 53 bits or more, highest bit 1, rounded to 53 bits, to
\* the nearest and on a tie to the even one
RoundToDouble(bits, exp) ==
    LET cut == Len(bits) - 53
    IN IF cut = 0 THEN [bits |-> bits, exp |-> exp]
       ELSE LET kept == SubSeq(bits, cut + 1, Len(bits))
                half == bits[cut] = 1
                more == \E i \in 1..(cut - 1) : bits[i] = 1
                up == half /\ (more \/ kept[1] = 1)
                rounded == IF up THEN AddBits(kept, <<1>>, 1, 0) ELSE kept
            IN IF Len(rounded) = 54
               THEN [bits |-> Tail(rounded), exp |-> exp + cut + 1]
               ELSE [bits |-> rounded, exp |-> exp + cut]

\* x + y in doubles, for x, y >= 0
DoubleAdd(x, y) ==
    IF x = DoubleZero THEN y
    ELSE IF y = DoubleZero THEN x
    ELSE LET e == IF x.exp < y.exp THEN x.exp ELSE y.exp
         IN RoundToDouble(AddBits(ShiftLeft(x.bits, x.exp - e), ShiftLeft(y.bits, y.exp - e), 1, 0), e)

\* for (const component of coalition) value += model.baseEffects[component],
\* the coalition's members in the order the Set holds them, from the k-th on
RECURSIVE AddBaseEffectsDouble(_, _, _, _)
AddBaseEffectsDouble(model, members, k, value) ==
    IF k > Len(members) THEN value
    ELSE AddBaseEffectsDouble(model, members, k + 1,
            DoubleAdd(value, DoubleOfLiteral(model.baseEffects[members[k]])))

\* for (const interaction of model.interactions) ..., from the k-th on
RECURSIVE AddInteractionsDouble(_, _, _, _)
AddInteractionsDouble(model, members, k, value) ==
    IF k > Len(model.interactions) THEN value
    ELSE LET interaction == model.interactions[k]
             comp1 == interaction.components[1]
             comp2 == interaction.components[2]
         IN AddInteractionsDouble(model, members, k + 1,
               IF comp1 \in Range(members) /\ comp2 \in Range(members)
               THEN DoubleAdd(value, DoubleOfLiteral(interaction.effect))
               ELSE value)

\* the double createValueFunction(model) returns on the Set built from the
\* list of distinct members, which it iterates in the list's order
createValueFunctionDouble(model, members) ==
    AddInteractionsDouble(model, members, 1, AddBaseEffectsDouble(model, members, 1, DoubleZero))

\* ---------------------------------------------------------------- the inputs
\* the causal models drawn: any small base effects and no interactions, next
\* to the two models of the repository
CausalModels ==
    {[baseEffects |-> b, interactions |-> << >>] : b \in [ComponentIds -> 0..MaxBase]}
    \cup {DEFAULT_CAUSAL_MODEL, robotPlusAdaptive}

\* the value functions drawn without a causal model, for a game with the
\* given players: every function that gives each coalition of the players a
\* non-negative whole value, the values adding up to MaxSum at most (each
\* unit of value is placed on one coalition), and everything else 0
ValueFunctions(players) ==
    {[coalition \in Coalitions |-> Cardinality({i \in DOMAIN placed : placed[i] = coalition})] :
        placed \in UNION {[1..m -> SUBSET players] : m \in 0..MaxSum}}

\* ------------------------------------------------------------------ the state
VARIABLES
    activeComponents,   \* the list handed to the engine
    model,              \* the causal model behind the value function, or NoModel
    valueFunction,      \* the value function handed to the engine
    factorialCache,     \* the module's factorialCache
    shapleyResult,      \* what computeShapleyValues returned, or NoResult
    coalitions,         \* what getAllCoalitions returned, or NoCoalitions
    thrown,             \* the failure computeShapleyValues ended with, or NoError
    valueFunctionCalls, \* per component, the calls of the value function made for it
    finalCalls,         \* the calls of the value function made after the loop
    factorialCalls,     \* the calls of factorial the engine made
    yielded,            \* what powerSet yielded to getAllCoalitions, in order
    verified,           \* <<what verifyEfficiencyAxiom returned>>, or << >> before the call
    totalValueDouble,   \* the double the last call had for totalValue, where followed
    frame,              \* where a call of computeShapleyValues followed step by step stands
    invocations,        \* per caller, the stack of a call of factorial followed step by step
    rewritten,          \* the keys of factorialCache that were set when already set
    TOTALS,             \* interventionData's TOTALS while its two sums are accumulated
    config,             \* the SimulationConfig handed to runSimulation (its numbers)
    simulationResult,   \* what runSimulation returned, the App's simulationResult, or NoSimulation
    isRunning,          \* the App's isRunning
    insight,            \* the App's insight
    timers,             \* the callbacks handed to setTimeout and not yet run, in order
    invoked             \* <<the list the App last handed to computeShapleyValues>>, or << >>

\* the variables the actions of one whole call leave alone
simVars == <<config, simulationResult>>

appVars == <<isRunning, insight, timers, invoked>>

restVars == <<invocations, rewritten, TOTALS, simVars, appVars>>

otherVars == <<frame, restVars>>

vars == <<activeComponents, model, valueFunction, factorialCache, shapleyResult, coalitions,
          thrown, valueFunctionCalls, finalCalls, factorialCalls, yielded, verified,
          totalValueDouble, otherVars>>

\* no call followed step by step
NoFrame == [pc |-> "idle", k |-> 0, mask |-> 0, shapleyValue |-> Zero,
            values |-> [c \in ComponentIds |-> Zero]]

\* the callers of factorial followed side by side
Callers == {1, 2}

\* no call of factorial under way
NoInvocation == [argument |-> 0, stack |-> << >>, returned |-> << >>]

\* both sums of TOTALS at reduce's initial value 0, no action added yet
NoTotals == [shapleySum |-> 0, shapleyDone |-> 0, rlCreditSum |-> 0, rlCreditDone |-> 0]

\* runSimulation not called
NoConfig == [numTrials |-> 0, initialSkill |-> Zero]

\* the App's simulationResult null
NoSimulation == [trials |-> << >>, initialSkill |-> Zero, finalSkill |-> Zero,
                 learningGain |-> Zero]

\* the App's initial insight, the text of the useState call
InitialInsight == [kind |-> "initial", component |-> "", percent |-> 0, gain |-> 0]

SimUntouched ==
    /\ config = NoConfig
    /\ simulationResult = NoSimulation

AppUntouched ==
    /\ isRunning = FALSE
    /\ insight = InitialInsight
    /\ timers = << >>
    /\ invoked = << >>

RestUntouched ==
    /\ invocations = [i \in Callers |-> NoInvocation]
    /\ rewritten = {}
    /\ TOTALS = NoTotals
    /\ SimUntouched
    /\ AppUntouched

OthersUntouched ==
    /\ frame = NoFrame
    /\ RestUntouched

\* nothing called yet
Untouched ==
    /\ factorialCache = << >>
    /\ shapleyResult = NoResult
    /\ coalitions = NoCoalitions
    /\ thrown = NoError
    /\ valueFunctionCalls = NoCalls
    /\ finalCalls = 0
    /\ factorialCalls = 0
    /\ yielded = << >>
    /\ verified = << >>
    /\ totalValueDouble = DoubleZero
    /\ OthersUntouched

Init ==
    /\ activeComponents \in DistinctLists
    /\ \/ /\ model \in CausalModels
          /\ valueFunction = createValueFunction(model)
       \/ /\ model = NoModel
          /\ valueFunction \in ValueFunctions(Range(activeComponents))
    /\ Untouched

\* computeShapleyValues(activeComponents, valueFunction)
ComputeShapleyValues ==
    /\ shapleyResult = NoResult
    /\ thrown = NoError
    /\ \E r \in {computeShapleyValues(activeComponents, valueFunction, factorialCache)} :
          /\ shapleyResult' = r.result
          /\ factorialCache' = r.cache
          /\ thrown' = r.thrown
          /\ valueFunctionCalls' = r.calls
          /\ finalCalls' = r.finalCalls
          /\ factorialCalls' = r.factorials
    /\ UNCHANGED <<activeComponents, model, valueFunction, coalitions, yielded, verified,
                   totalValueDouble>>
    /\ UNCHANGED otherVars

\* getAllCoalitions(activeComponents)
GetAllCoalitions ==
    /\ coalitions = NoCoalitions
    /\ coalitions' = getAllCoalitions(activeComponents)
    /\ yielded' = powerSet(activeComponents)
    /\ UNCHANGED <<activeComponents, model, valueFunction, factorialCache, shapleyResult,
                   thrown, valueFunctionCalls, finalCalls, factorialCalls, verified,
                   totalValueDouble>>
    /\ UNCHANGED otherVars

Next == ComputeShapleyValues

Spec == Init /\ [][Next]_vars

\* the engine called again and again, each call on any list of distinct
\* components, with the value function of one of the repository's two models
\* and the factorial cache kept from call to call
InitCalls ==
    /\ model \in {DEFAULT_CAUSAL_MODEL, robotPlusAdaptive}
    /\ valueFunction = createValueFunction(model)
    /\ activeComponents = << >>
    /\ Untouched

Call ==
    \E list \in DistinctLists :
      \E r \in {computeShapleyValues(list, valueFunction, factorialCache)} :
        /\ activeComponents' = list
        /\ shapleyResult' = r.result
        /\ factorialCache' = r.cache
        /\ thrown' = r.thrown
        /\ valueFunctionCalls' = r.calls
        /\ finalCalls' = r.finalCalls
        /\ factorialCalls' = r.factorials
        /\ totalValueDouble' = createValueFunctionDouble(model, list)
        /\ UNCHANGED <<model, valueFunction, coalitions, yielded, verified>>
        /\ UNCHANGED otherVars

NextCalls == Call

SpecCalls == InitCalls /\ [][NextCalls]_vars

\* createValueFunction alone, on causal models with the base effects of one
\* of the repository's two models and any list of up to MaxInteractions
\* interactions, each between any two components, of a negative or a
\* positive effect
Interactions == [components : ComponentIds \X ComponentIds, effect : {-5, 20}]

InteractingModels ==
    {[baseEffects |-> b, interactions |-> i] :
        b \in {DEFAULT_CAUSAL_MODEL.baseEffects, robotPlusAdaptive.baseEffects},
        i \in UNION {[1..m -> Interactions] : m \in 0..MaxInteractions}}

InitModel ==
    /\ model \in InteractingModels
    /\ activeComponents = ALL_COMPONENTS
    /\ valueFunction = << >>
    /\ Untouched

CreateValueFunction ==
    /\ valueFunction = << >>
    /\ model # NoModel
    /\ valueFunction' = createValueFunction(model)
    /\ UNCHANGED <<activeComponents, model, factorialCache, shapleyResult, coalitions,
                   thrown, valueFunctionCalls, finalCalls, factorialCalls, yielded, verified,
                   totalValueDouble>>
    /\ UNCHANGED otherVars

NextModel == CreateValueFunction

SpecModel == InitModel /\ [][NextModel]_vars

\* the engine on value functions that fail on some coalitions: the default
\* model's value function, with up to MaxMissing coalitions taken out of its
\* domain
FailingValueFunctions ==
    {[coalition \in Coalitions \ missing |-> createValueFunction(DEFAULT_CAUSAL_MODEL)[coalition]] :
        missing \in {m \in SUBSET Coalitions : Cardinality(m) <= MaxMissing}}

InitFail ==
    /\ activeComponents \in DistinctLists
    /\ model = NoModel
    /\ valueFunction \in FailingValueFunctions
    /\ Untouched

SpecFail == InitFail /\ [][Next]_vars

\* verifyEfficiencyAxiom alone, on results whose values are whole hundredths
\* but for one, which is off by a multiple of epsilon / 2
Deltas == {Frac(j, 2 * epsilon[2]) : j \in -MaxDelta..MaxDelta}

ShapleyResults ==
    {[values |-> [c \in ComponentIds |-> IF c = off THEN FracAdd(FracOfInt(whole[c]), delta)
                                         ELSE FracOfInt(whole[c])],
      totalValue |-> total,
      interactionValue |-> 0] :
        whole \in [ComponentIds -> 0..MaxValue], off \in ComponentIds,
        delta \in Deltas, total \in 0..(MaxValue + 1)}

InitVerify ==
    /\ shapleyResult \in ShapleyResults
    /\ activeComponents = ALL_COMPONENTS
    /\ model = NoModel
    /\ valueFunction = << >>
    /\ factorialCache = << >>
    /\ coalitions = NoCoalitions
    /\ thrown = NoError
    /\ valueFunctionCalls = NoCalls
    /\ finalCalls = 0
    /\ factorialCalls = 0
    /\ yielded = << >>
    /\ verified = << >>
    /\ totalValueDouble = DoubleZero
    /\ OthersUntouched

VerifyEfficiencyAxiom ==
    /\ verified = << >>
    /\ shapleyResult # NoResult
    /\ verified' = <<verifyEfficiencyAxiom(shapleyResult)>>
    /\ UNCHANGED <<activeComponents, model, valueFunction, factorialCache, shapleyResult,
                   coalitions, thrown, valueFunctionCalls, finalCalls, factorialCalls, yielded,
                   totalValueDouble>>
    /\ UNCHANGED otherVars

NextVerify == VerifyEfficiencyAxiom

SpecVerify == InitVerify /\ [][NextVerify]_vars

\* the enumeration alone, on every list of distinct components
InitEnum ==
    /\ activeComponents \in DistinctLists
    /\ model = DEFAULT_CAUSAL_MODEL
    /\ valueFunction = createValueFunction(model)
    /\ Untouched

NextEnum == GetAllCoalitions

SpecEnum == InitEnum /\ [][NextEnum]_vars

\* ------------------------------------------------- the call, step by step
\* computeShapleyValues followed pass by pass through its loops: frame.k is
\* the position of the component of the outer loop (part of
\* computeShapleyValues), frame.mask the mask of powerSet's loop inside
\* computeShapleyForComponent, frame.shapleyValue the sum so far
Others(k) == SelectSeq(activeComponents, LAMBDA c : c # activeComponents[k])

\* the loop test of powerSet let one pass too many through: mask <= (1 << n)
MoreSubsetsInclusive(n, mask) == mask <= ShiftLeftOne(n)

\* the loop test of powerSet: mask < (1 << n)
MoreSubsets(n, mask) == mask < ShiftLeftOne(n)

\* the subset powerSet yields at frame.mask
SubsetOfFrame == SubsetOfMask(Others(frame.k), frame.mask, 0)

\* marginalContribution = valueFunction(coalitionWith) - valueFunction(coalitionWithout)
MarginalOfFrame ==
    valueFunction[Range(SubsetOfFrame) \cup {activeComponents[frame.k]}]
      - valueFunction[Range(SubsetOfFrame)]

InitSteps ==
    /\ activeComponents \in DistinctLists
    /\ model \in {DEFAULT_CAUSAL_MODEL, robotPlusAdaptive}
    /\ valueFunction = createValueFunction(model)
    /\ factorialCache = << >>
    /\ shapleyResult = NoResult
    /\ coalitions = NoCoalitions
    /\ thrown = NoError
    /\ valueFunctionCalls = NoCalls
    /\ finalCalls = 0
    /\ factorialCalls = 0
    /\ yielded = << >>
    /\ verified = << >>
    /\ totalValueDouble = DoubleZero
    /\ frame = [NoFrame EXCEPT !.pc = "loop", !.k = 1]
    /\ RestUntouched

\* one pass of the loop over powerSet(othersWithoutComponent)
SubsetPass ==
    /\ frame.pc = "loop"
    /\ frame.k <= Len(activeComponents)
    /\ MoreSubsets(Len(Others(frame.k)), frame.mask)
    /\ \E w \in {WeightStep(factorialCache, Len(SubsetOfFrame), Len(activeComponents))} :
        \E weighted \in {FracMul(w.weight, FracOfInt(MarginalOfFrame))} :
          /\ frame' = [frame EXCEPT !.mask = @ + 1,
                                    !.shapleyValue = FracAdd(frame.shapleyValue, weighted)]
          /\ factorialCache' = w.cache
          /\ factorialCalls' = factorialCalls + 3
          /\ valueFunctionCalls' = [valueFunctionCalls EXCEPT ![activeComponents[frame.k]] = @ + 2]
    /\ UNCHANGED <<activeComponents, model, valueFunction, shapleyResult, coalitions, thrown,
                   finalCalls, yielded, verified, totalValueDouble, restVars>>

\* powerSet is exhausted: computeShapleyForComponent returns, the value is
\* stored and the outer loop goes on to the next component
ComponentReturn ==
    /\ frame.pc = "loop"
    /\ frame.k <= Len(activeComponents)
    /\ ~MoreSubsets(Len(Others(frame.k)), frame.mask)
    /\ frame' = [frame EXCEPT !.values[activeComponents[frame.k]] = frame.shapleyValue,
                              !.k = @ + 1, !.mask = 0, !.shapleyValue = Zero]
    /\ UNCHANGED <<activeComponents, model, valueFunction, factorialCache, shapleyResult,
                   coalitions, thrown, valueFunctionCalls, finalCalls, factorialCalls, yielded,
                   verified, totalValueDouble, restVars>>

\* the outer loop is over: the totals are taken and the result returned
ResultReturn ==
    /\ frame.pc = "loop"
    /\ frame.k > Len(activeComponents)
    /\ \E r \in {Aggregate(activeComponents, valueFunction,
                            [values |-> frame.values, cache |-> factorialCache,
                             calls |-> valueFunctionCalls, factorials |-> factorialCalls,
                             thrown |-> NoError],
                            Range(activeComponents),
                            SumOfIndividualEffects(activeComponents, 1, valueFunction), 1)} :
          /\ shapleyResult' = r.result
          /\ finalCalls' = r.finalCalls
    /\ frame' = [frame EXCEPT !.pc = "done"]
    /\ UNCHANGED <<activeComponents, model, valueFunction, factorialCache, coalitions, thrown,
                   valueFunctionCalls, factorialCalls, yielded, verified, totalValueDouble,
                   restVars>>

NextSteps == SubsetPass \/ ComponentReturn \/ ResultReturn

SpecSteps == InitSteps /\ [][NextSteps]_vars

\* the call runs on: JavaScript runs a synchronous call to its end
SpecStepsFair == SpecSteps /\ WF_vars(NextSteps)

\* ------------------------------------------- the engine on causal models
\* computeShapleyValues on the value function createValueFunction builds
\* from a causal model: the default base effects with any list of up to
\* MaxListed interactions, each between any two components (a component
\* with itself included), or DEFAULT_CAUSAL_MODEL itself; the active
\* components are any of ALL_COMPONENTS in that order
ListedInteractions ==
    {[components |-> pair,
      effect |-> IF \E i, j \in DOMAIN ALL_COMPONENTS :
                       i < j /\ pair = <<ALL_COMPONENTS[i], ALL_COMPONENTS[j]>>
                 THEN 20 ELSE -5] : pair \in ComponentIds \X ComponentIds}

ListedModels ==
    {[baseEffects |-> DEFAULT_CAUSAL_MODEL.baseEffects, interactions |-> i] :
        i \in UNION {[1..m -> ListedInteractions] : m \in 0..MaxListed}}
    \cup {DEFAULT_CAUSAL_MODEL}

SubLists == {SelectSeq(ALL_COMPONENTS, LAMBDA c : c \in chosen) : chosen \in SUBSET ComponentIds}

InitListed ==
    /\ model \in ListedModels
    /\ valueFunction = createValueFunction(model)
    /\ activeComponents \in SubLists
    /\ Untouched

SpecListed == InitListed /\ [][Next]_vars

\* -------------------------------------------------- factorial, step by step
\* Calls of factorial followed statement by statement, the calls of two
\* callers side by side on the one factorialCache. A stack entry is a call
\* of factorial(n) at "test" (entered), "call" (waiting for factorial(n - 1)),
\* "store" (result computed) or "return" (result stored).
InitFactorial ==
    /\ activeComponents = << >>
    /\ model = NoModel
    /\ valueFunction = << >>
    /\ Untouched

\* factorial(n) is called from outside
Invoke(i) ==
    /\ invocations[i].stack = << >>
    /\ \E n \in 0..MaxArgument :
          invocations' = [invocations EXCEPT ![i] =
              [argument |-> n, stack |-> <<[n |-> n, pc |-> "test", result |-> 0]>>,
               returned |-> << >>]]
    /\ UNCHANGED <<factorialCache, rewritten>>

\* the call below takes the value returned as its result, unmultiplied
DeliverUnmultiplied(invocation, v) ==
    LET below == Tail(invocation.stack)
    IN IF below = << >>
       THEN [invocation EXCEPT !.stack = << >>, !.returned = <<v>>]
       ELSE [invocation EXCEPT !.stack =
                <<[below[1] EXCEPT !.result = v, !.pc = "store"]>> \o Tail(below)]

\* the call on top of the stack returns v: to the caller outside, or to the
\* call below, which multiplies: const result = n * factorial(n - 1)
Deliver(invocation, v) ==
    LET below == Tail(invocation.stack)
    IN IF below = << >>
       THEN [invocation EXCEPT !.stack = << >>, !.returned = <<v>>]
       ELSE [invocation EXCEPT !.stack =
                <<[below[1] EXCEPT !.result = below[1].n * v, !.pc = "store"]>> \o Tail(below)]

\* if (n <= 1) return 1; if (factorialCache.has(n)) return factorialCache.get(n);
\* otherwise factorial(n - 1) is called
Test(i) ==
    /\ invocations[i].stack # << >>
    /\ invocations[i].stack[1].pc = "test"
    /\ LET top == invocations[i].stack[1]
       IN invocations' = [invocations EXCEPT ![i] =
            IF top.n <= 1 THEN Deliver(@, 1)
            ELSE IF top.n \in DOMAIN factorialCache THEN Deliver(@, factorialCache[top.n])
            ELSE [@ EXCEPT !.stack = <<[n |-> top.n - 1, pc |-> "test", result |-> 0],
                                       [top EXCEPT !.pc = "call"]>> \o Tail(@)]]
    /\ UNCHANGED <<factorialCache, rewritten>>

\* factorialCache.set(n, result)
Store(i) ==
    /\ invocations[i].stack # << >>
    /\ invocations[i].stack[1].pc = "store"
    /\ LET top == invocations[i].stack[1]
       IN /\ factorialCache' = (top.n :> top.result) @@ factorialCache
          /\ rewritten' = IF top.n \in DOMAIN factorialCache THEN rewritten \cup {top.n}
                          ELSE rewritten
          /\ invocations' = [invocations EXCEPT ![i].stack[1].pc = "return"]

\* return result
Return(i) ==
    /\ invocations[i].stack # << >>
    /\ invocations[i].stack[1].pc = "return"
    /\ invocations' = [invocations EXCEPT ![i] = Deliver(@, @.stack[1].result)]
    /\ UNCHANGED <<factorialCache, rewritten>>

NextFactorial ==
    /\ \E i \in Callers : Invoke(i) \/ Test(i) \/ Store(i) \/ Return(i)
    /\ UNCHANGED <<activeComponents, model, valueFunction, shapleyResult, coalitions, thrown,
                   valueFunctionCalls, finalCalls, factorialCalls, yielded, verified,
                   totalValueDouble, frame, TOTALS, simVars, appVars>>

SpecFactorial == InitFactorial /\ [][NextFactorial]_vars

\* ------------------------------------------------------------ runSimulation
\* Skill levels and gains are hundredths, as the values are, kept as exact
\* fractions. The outcome of a trial, Math.random() < pCorrect + randomFactor,
\* can fall either way at every skill level (pCorrect + randomFactor stays
\* strictly between 0 and 1), so the outcomes are an input: outcomes[i] is
\* the value of correct in the i-th pass of the loop.
FracLeq(x, y) == x[1] * y[2] <= y[1] * x[2]

FracSub(x, y) == FracAdd(x, <<-y[1], y[2]>>)

\* Math.min
FracMin(x, y) == IF FracLeq(x, y) THEN x ELSE y

\* the skill level 1.0
FullSkill == FracOfInt(100)

\* the body of the loop without Math.min(1.0, ...)
SessionUncapped(active, learningRate, correct, i, loop) ==
    LET sessionGain == IF correct THEN FracMul(learningRate, Frac(12, 10))
                       ELSE FracMul(learningRate, Frac(8, 10))
    IN [trials |-> Append(loop.trials,
                          [trialNumber |-> i + 1, skillLevel |-> loop.currentSkill,
                           correct |-> correct, activeComponents |-> active]),
        currentSkill |-> FracAdd(loop.currentSkill, sessionGain)]

\* the body of the loop, pass i: trials.push({...}), then sessionGain and
\* currentSkill = Math.min(1.0, currentSkill + sessionGain); loop holds
\* trials and currentSkill as the pass finds them
Session(active, learningRate, correct, i, loop) ==
    LET sessionGain == IF correct THEN FracMul(learningRate, Frac(12, 10))
                       ELSE FracMul(learningRate, Frac(8, 10))
    IN [trials |-> Append(loop.trials,
                          [trialNumber |-> i + 1, skillLevel |-> loop.currentSkill,
                           correct |-> correct, activeComponents |-> active]),
        currentSkill |-> FracMin(FullSkill, FracAdd(loop.currentSkill, sessionGain))]

\* for (let i = 0; i < numTrials; i++) { ... }, from pass i on
RECURSIVE SimulationLoop(_, _, _, _, _, _)
SimulationLoop(active, numTrials, learningRate, outcomes, i, loop) ==
    IF ~(i < numTrials) THEN loop
    ELSE SimulationLoop(active, numTrials, learningRate, outcomes, i + 1,
                        Session(active, learningRate, outcomes[i + 1], i, loop))

\* runSimulation({activeComponents: active, numTrials, initialSkill}, causalModel)
runSimulation(active, numTrials, initialSkill, causalModel, outcomes) ==
    LET coalition == Range(active)
        learningRate == Frac(createValueFunction(causalModel)[coalition], numTrials)
        loop == SimulationLoop(active, numTrials, learningRate, outcomes, 0,
                               [trials |-> << >>, currentSkill |-> initialSkill])
    IN [trials |-> loop.trials,
        initialSkill |-> initialSkill,
        finalSkill |-> loop.currentSkill,
        learningGain |-> FracSub(loop.currentSkill, initialSkill)]

\* the initial skills drawn: 0, the App's 0.2, 0.95 and 1.0
InitialSkills == {FracOfInt(0), FracOfInt(20), FracOfInt(95), FracOfInt(100)}

InitSimulation ==
    /\ activeComponents \in SubLists
    /\ model \in {DEFAULT_CAUSAL_MODEL, robotPlusAdaptive}
    /\ valueFunction = createValueFunction(model)
    /\ factorialCache = << >>
    /\ shapleyResult = NoResult
    /\ coalitions = NoCoalitions
    /\ thrown = NoError
    /\ valueFunctionCalls = NoCalls
    /\ finalCalls = 0
    /\ factorialCalls = 0
    /\ yielded = << >>
    /\ verified = << >>
    /\ totalValueDouble = DoubleZero
    /\ frame = NoFrame
    /\ invocations = [i \in Callers |-> NoInvocation]
    /\ rewritten = {}
    /\ TOTALS = NoTotals
    /\ config \in [numTrials : 1..MaxTrials, initialSkill : InitialSkills]
    /\ simulationResult = NoSimulation
    /\ AppUntouched

\* runSimulation(config, model)
RunSimulation ==
    /\ simulationResult = NoSimulation
    /\ \E outcomes \in [1..config.numTrials -> BOOLEAN] :
          simulationResult' = runSimulation(activeComponents, config.numTrials,
                                            config.initialSkill, model, outcomes)
    /\ UNCHANGED <<activeComponents, model, valueFunction, factorialCache, shapleyResult,
                   coalitions, thrown, valueFunctionCalls, finalCalls, factorialCalls, yielded,
                   verified, totalValueDouble, frame, invocations, rewritten, TOTALS, config,
                   appVars>>

NextSimulation == RunSimulation

SpecSimulation == InitSimulation /\ [][NextSimulation]_vars

\* ---------------------------------------------------- runAveragedSimulation
\* allResults.reduce((sum, r) => sum + r.trials[trialIdx].skillLevel, 0), from
\* the k-th run on
RECURSIVE SumOfSkillLevels(_, _, _)
SumOfSkillLevels(allResults, trialIdx, k) ==
    IF k > Len(allResults) THEN Zero
    ELSE FracAdd(allResults[k].trials[trialIdx].skillLevel,
                 SumOfSkillLevels(allResults, trialIdx, k + 1))

\* allResults.reduce((sum, r) => sum + r.finalSkill, 0), from the k-th run on
RECURSIVE SumOfFinalSkills(_, _)
SumOfFinalSkills(allResults, k) ==
    IF k > Len(allResults) THEN Zero
    ELSE FracAdd(allResults[k].finalSkill, SumOfFinalSkills(allResults, k + 1))

\* Array.from({ length: numRuns }, () => runSimulation(config, model)), from
\* the r-th run on; outcomes[r] are the outcomes of the trials of run r
RECURSIVE AllResults(_, _, _, _, _, _, _)
AllResults(active, numTrials, initialSkill, numRuns, causalModel, outcomes, r) ==
    IF r > numRuns THEN << >>
    ELSE <<runSimulation(active, numTrials, initialSkill, causalModel, outcomes[r])>>
         \o AllResults(active, numTrials, initialSkill, numRuns, causalModel, outcomes, r + 1)

\* runAveragedSimulation({activeComponents: active, numTrials, initialSkill},
\* numRuns), after its first statement: allResults are the results of the
\* runs
runAveragedSimulation(active, numTrials, initialSkill, numRuns, allResults) ==
    LET avgTrials ==
            IF Len(active) > 0
            THEN [trialIdx \in 1..Len(allResults[1].trials) |->
                    [trialNumber |-> trialIdx,
                     skillLevel |->
                        FracMul(SumOfSkillLevels(allResults, trialIdx, 1), Frac(1, numRuns)),
                     correct |->
                        2 * Cardinality({r \in 1..numRuns : allResults[r].trials[trialIdx].correct})
                          > numRuns,
                     activeComponents |-> active]]
            ELSE [i \in 1..numTrials |->
                    [trialNumber |-> i, skillLevel |-> initialSkill, correct |-> FALSE,
                     activeComponents |-> << >>]]
        avgFinalSkill == FracMul(SumOfFinalSkills(allResults, 1), Frac(1, numRuns))
    IN [trials |-> avgTrials,
        initialSkill |-> initialSkill,
        finalSkill |-> avgFinalSkill,
        learningGain |-> FracSub(avgFinalSkill, initialSkill)]

\* ---------------------------------------------------------- generateInsight
\* x.toFixed(0) of a fraction x >= 0
ToFixed(x) == (2 * x[1] + x[2]) \div (2 * x[2])

\* ((value / total) * 100).toFixed(0)
Percent(value, total) == ToFixed(Frac(100 * value[1] * total[2], value[2] * total[1]))

\* The insight is kept as what the text is made of: which of the texts it
\* is, the component it names, the percentages and the gain it prints.
Insight(kind, component, percent, robotPercent, gain) ==
    [kind |-> kind, component |-> component, percent |-> percent,
     robotPercent |-> robotPercent, gain |-> gain]

\* sorted[0] of the list sorted by value, largest first: the sort is stable,
\* so of the components with the largest value the first of the list
TopOf(active, shapleyValues) ==
    active[CHOOSE i \in DOMAIN active :
              /\ \A j \in DOMAIN active :
                    FracLeq(shapleyValues[active[j]], shapleyValues[active[i]])
              /\ \A j \in 1..(i - 1) :
                    shapleyValues[active[j]] # shapleyValues[active[i]]]

\* sorted.reduce((sum, s) => sum + s.value, 0), from the k-th entry on (the
\* sum is exact here, so the order of the entries does not show)
RECURSIVE ReduceSorted(_, _, _)
ReduceSorted(active, shapleyValues, k) ==
    IF k > Len(active) THEN Zero
    ELSE FracAdd(shapleyValues[active[k]], ReduceSorted(active, shapleyValues, k + 1))

generateInsight(active, shapleyValues) ==
    IF Len(active) = 0 THEN Insight("enable", "", 0, 0, 0)
    ELSE IF Len(active) = 1
    THEN Insight("single", active[1], 100, 0, ToFixed(shapleyValues[active[1]]))
    ELSE LET top == TopOf(active, shapleyValues)
             total == ReduceSorted(active, shapleyValues, 1)
             topPercent == Percent(shapleyValues[top], total)
             hasRobot == "robotEngagement" \in Range(active)
             hasDifficulty == "adaptiveDifficulty" \in Range(active)
             hasCaregiver == "caregiverInvolvement" \in Range(active)
             robotPercent == Percent(shapleyValues["robotEngagement"], total)
         IN IF hasRobot /\ hasDifficulty
            THEN IF hasCaregiver
                 THEN Insight("triadic", "robotEngagement", robotPercent, robotPercent, 0)
                 ELSE Insight("robotDifficulty", top, topPercent, robotPercent, 0)
            ELSE IF hasRobot /\ hasCaregiver /\ ~hasDifficulty
            THEN Insight("robotCaregiver", "robotEngagement", robotPercent, robotPercent, 0)
            ELSE IF hasRobot
            THEN Insight("robot", "robotEngagement", robotPercent, robotPercent,
                         ToFixed(total))
            ELSE Insight("noRobot", top, topPercent, 0, 0)

\* ------------------------------------------------------------------ the App
\* The App's state is activeComponents, simulationResult, shapleyResult,
\* insight and isRunning; timers holds the callbacks given to setTimeout
\* that have not run, each with the activeComponents its closure holds.
\* An event handler runs to its end and the component is rendered again
\* before the next event is taken, so each handler is one step.
numTrials == 20

numRuns == 10

\* initialSkill: 0.2
initialSkill == FracOfInt(20)

\* the components whose checkboxes the user is let toggle: the two that
\* are active at first
Toggled == {"robotEngagement", "adaptiveDifficulty"}

\* the outcomes of the trials of the runs of one averaged simulation: every
\* trial correct, none, or every other one
AppOutcomes ==
    {[r \in 1..numRuns |-> [i \in 1..numTrials |-> TRUE]],
     [r \in 1..numRuns |-> [i \in 1..numTrials |-> FALSE]],
     [r \in 1..numRuns |-> [i \in 1..numTrials |-> (r + i) % 2 = 0]]}

\* handleToggleComponent that appends whether or not the component is there
handleToggleComponentAppending(prev, component) == Append(prev, component)

\* prev.includes(component) ? prev.filter((c) => c !== component)
\*                           : [...prev, component]
handleToggleComponent(prev, component) ==
    IF component \in Range(prev)
    THEN SelectSeq(prev, LAMBDA c : c # component)
    ELSE Append(prev, component)

\* handleRunSimulation without its first line
handleRunSimulationUnguarded(active, running, pending) ==
    [isRunning |-> TRUE, timers |-> Append(pending, [activeComponents |-> active])]

\* handleRunSimulation that calls setTimeout twice
handleRunSimulationTwice(active, running, pending) ==
    IF Len(active) = 0 THEN [isRunning |-> running, timers |-> pending]
    ELSE [isRunning |-> TRUE,
          timers |-> pending \o <<[activeComponents |-> active], [activeComponents |-> active]>>]

\* handleRunSimulation whose callback is given every component
handleRunSimulationCapturingAll(active, running, pending) ==
    IF Len(active) = 0 THEN [isRunning |-> running, timers |-> pending]
    ELSE [isRunning |-> TRUE, timers |-> Append(pending, [activeComponents |-> ALL_COMPONENTS])]

\* handleRunSimulation, up to the call of setTimeout: the callback's closure
\* holds the activeComponents of the render the handler belongs to
handleRunSimulation(active, running, pending) ==
    IF Len(active) = 0 THEN [isRunning |-> running, timers |-> pending]
    ELSE [isRunning |-> TRUE, timers |-> Append(pending, [activeComponents |-> active])]

InitApp ==
    /\ activeComponents = <<"robotEngagement", "adaptiveDifficulty">>
    /\ model = DEFAULT_CAUSAL_MODEL
    /\ valueFunction = createValueFunction(model)
    /\ Untouched

\* the engine's observation variables, which the App does not keep
AppLeavesAlone ==
    UNCHANGED <<model, valueFunction, coalitions, thrown, valueFunctionCalls, finalCalls,
                factorialCalls, yielded, verified, totalValueDouble, frame, invocations,
                rewritten, TOTALS, config>>

\* a checkbox of the ControlPanel changes
HandleToggleComponent ==
    /\ \E component \in Toggled :
          activeComponents' = handleToggleComponent(activeComponents, component)
    /\ UNCHANGED <<factorialCache, shapleyResult, simulationResult, appVars>>
    /\ AppLeavesAlone

\* the run button is clicked. The button is disabled while isRunning; it is
\* disabled too while no component is active, which the handler tests again
\* in its first line: the click is let through to the handler there.
HandleRunSimulation ==
    /\ ~isRunning
    /\ \E run \in {handleRunSimulation(activeComponents, isRunning, timers)} :
          /\ isRunning' = run.isRunning
          /\ timers' = run.timers
    /\ UNCHANGED <<activeComponents, factorialCache, shapleyResult, simulationResult, insight,
                   invoked>>
    /\ AppLeavesAlone

\* the timer of the oldest pending callback fires and the callback runs, on
\* the activeComponents its closure holds
TimerFires ==
    /\ timers # << >>
    /\ \E captured \in {Head(timers).activeComponents}, outcomes \in AppOutcomes :
        \E allResults \in {AllResults(captured, numTrials, initialSkill, numRuns,
                                      DEFAULT_CAUSAL_MODEL, outcomes, 1)} :
        \E simResult \in {runAveragedSimulation(captured, numTrials, initialSkill, numRuns,
                                                allResults)} :
        \E shapley \in {computeShapleyValues(captured,
                                             createValueFunction(DEFAULT_CAUSAL_MODEL),
                                             factorialCache)} :
        \E insightText \in {generateInsight(captured, shapley.result.values)} :
          /\ simulationResult' = simResult
          /\ shapleyResult' = shapley.result
          /\ insight' = insightText
          /\ isRunning' = FALSE
          /\ factorialCache' = shapley.cache
          /\ invoked' = <<captured>>
    /\ timers' = Tail(timers)
    /\ UNCHANGED activeComponents
    /\ AppLeavesAlone

NextApp == HandleToggleComponent \/ HandleRunSimulation \/ TimerFires

SpecApp == InitApp /\ [][NextApp]_vars

\* the oldest pending callback is taken off timers: what the firing of its
\* timer does to timers, and no other step of the App
TimerDue ==
    /\ timers # << >>
    /\ timers' = Tail(timers)

\* a timer that was set fires: the event loop runs every callback whose
\* delay has passed. The callback can always run (TimerFires is enabled
\* whenever a callback is pending), so the fairness is stated on what its
\* run does to timers.
SpecAppFair == SpecApp /\ WF_timers(TimerDue)

\* ------------------------------------------------------- interventionData
\* INTERVENTION_ACTIONS, day by day: <<shapleyValue, rlCredit>> in hundredths
INTERVENTION_ACTIONS ==
    << <<2, 1>>, <<1, 1>>, <<12, 2>>, <<6, 2>>, <<4, 3>>,
       <<8, 3>>, <<3, 4>>, <<2, 5>>, <<5, 6>>, <<1, 7>>,
       <<3, 8>>, <<-1, 10>>, <<2, 12>>, <<4, 15>>, <<-2, 21>> >>

INTERVENTION_SUMMARY == [totalDays |-> 15, totalActions |-> 15, outcomeImprovement |-> 35]

InitTotals ==
    /\ activeComponents = << >>
    /\ model = NoModel
    /\ valueFunction = << >>
    /\ Untouched

\* one call of (sum, a) => sum + a.shapleyValue by the reduce of shapleySum
ReduceShapleyValue ==
    /\ TOTALS.shapleyDone < Len(INTERVENTION_ACTIONS)
    /\ TOTALS' = [TOTALS EXCEPT
                    !.shapleySum = @ + INTERVENTION_ACTIONS[TOTALS.shapleyDone + 1][1],
                    !.shapleyDone = @ + 1]

\* one call of (sum, a) => sum + a.rlCredit by the reduce of rlCreditSum
ReduceRlCredit ==
    /\ TOTALS.rlCreditDone < Len(INTERVENTION_ACTIONS)
    /\ TOTALS' = [TOTALS EXCEPT
                    !.rlCreditSum = @ + INTERVENTION_ACTIONS[TOTALS.rlCreditDone + 1][2],
                    !.rlCreditDone = @ + 1]

\* The two reduces share nothing but the array they read; they are let
\* advance in either order, the order of evaluation (shapleySum first, then
\* rlCreditSum) included.
NextTotals ==
    /\ ReduceShapleyValue \/ ReduceRlCredit
    /\ UNCHANGED <<activeComponents, model, valueFunction, factorialCache, shapleyResult,
                   coalitions, thrown, valueFunctionCalls, finalCalls, factorialCalls, yielded,
                   verified, totalValueDouble, frame, invocations, rewritten, simVars,
                   appVars>>

SpecTotals == InitTotals /\ [][NextTotals]_vars

\* ================================================================== claims
Active == Range(activeComponents)

Done == shapleyResult # NoResult

Enumerated == coalitions # NoCoalitions

RECURSIVE SumFracs(_, _)
SumFracs(values, ids) ==
    IF ids = {} THEN Zero
    ELSE LET c == CHOOSE x \in ids : TRUE
         IN FracAdd(values[c], SumFracs(values, ids \ {c}))

\* the sum of all entries of the result's values
SumOfShapley == SumFracs(shapleyResult.values, DOMAIN shapleyResult.values)

\* c never changes the value of a coalition of the other active components
IsNullPlayer(c) == \A S \in SUBSET (Active \ {c}) : valueFunction[S \cup {c}] = valueFunction[S]

\* a and b are interchangeable in every coalition of the other active components
Interchangeable(a, b) ==
    \A S \in SUBSET (Active \ {a, b}) : valueFunction[S \cup {a}] = valueFunction[S \cup {b}]

\* C1 as stated: for any value function and any list of distinct active
\* components, the Shapley values returned sum to valueFunction(all active
\* components), the result's totalValue.
C1_EfficiencyAnyValueFunction ==
    Done => SumOfShapley = FracOfInt(shapleyResult.totalValue)

\* C1, amended: for any value function that gives the empty coalition the
\* value 0 and any list of distinct active components, the Shapley values
\* returned sum to the result's totalValue.
C1_Efficiency ==
    (Done /\ valueFunction[{}] = 0) => SumOfShapley = FracOfInt(shapleyResult.totalValue)

C1_Witness ==
    /\ Done
    /\ valueFunction[{}] = 0
    /\ Len(activeComponents) >= 3
    /\ shapleyResult.totalValue # 0
    /\ \E c \in Active : shapleyResult.values[c][2] # 1

\* C2: an active component whose presence changes the value of no coalition
\* of the other active components has Shapley value exactly 0.
C2_NullPlayer ==
    Done => \A c \in Active : IsNullPlayer(c) => shapleyResult.values[c] = Zero

C2_Witness ==
    /\ Done
    /\ \E c, d \in Active :
         /\ IsNullPlayer(c)
         /\ valueFunction[{c}] # 0
         /\ shapleyResult.values[c] = Zero
         /\ shapleyResult.values[d] # Zero

\* C3: two active components that are interchangeable in the value function
\* receive equal Shapley values.
C3_Symmetry ==
    Done => \A a, b \in Active :
              Interchangeable(a, b) => shapleyResult.values[a] = shapleyResult.values[b]

C3_Witness ==
    /\ Done
    /\ \E a, b, d \in Active :
         /\ a # b
         /\ Interchangeable(a, b)
         /\ shapleyResult.values[a] = shapleyResult.values[b]
         /\ shapleyResult.values[a] # Zero
         /\ shapleyResult.values[d] # shapleyResult.values[a]

\* C4: with exactly one active component c, the only coalition enumerated is
\* the empty one, its weight is 1, and the Shapley value of c is
\* valueFunction({c}) - valueFunction({}).
C4_Singleton ==
    (Done /\ Len(activeComponents) = 1) =>
        LET c == activeComponents[1]
        IN /\ powerSet(SelectSeq(activeComponents, LAMBDA x : x # c)) = << << >> >>
           /\ WeightStep(<< >>, 0, 1).weight = FracOfInt(1)
           /\ shapleyResult.values[c] = FracOfInt(valueFunction[{c}] - valueFunction[{}])

C4_Witness ==
    /\ Done
    /\ Len(activeComponents) = 1
    /\ valueFunction[{}] # 0
    /\ shapleyResult.values[activeComponents[1]] # Zero

\* C5: for a causal model without interactions, every active component's
\* Shapley value is its base effect and the interaction value is 0.
C5_Additivity ==
    (Done /\ model # NoModel /\ model.interactions = << >>) =>
        /\ \A c \in Active : shapleyResult.values[c] = FracOfInt(model.baseEffects[c])
        /\ shapleyResult.interactionValue = 0

C5_Witness ==
    /\ Done
    /\ model # NoModel
    /\ model.interactions = << >>
    /\ Len(activeComponents) >= 3
    /\ \E c, d \in Active : model.baseEffects[c] # model.baseEffects[d]

\* C6: for the two components of the robotPlusAdaptive scenario, with
\* v({})=0, v({A})=0.15, v({B})=0.20, v({A,B})=0.45, the result has
\* Shapley(A)=0.20, Shapley(B)=0.25, totalValue=0.45, the sum of the two,
\* and interactionValue=0.10.
C6_TwoPlayerScenario ==
    (Done /\ model = robotPlusAdaptive /\ Active = {"robotEngagement", "adaptiveDifficulty"}) =>
        /\ valueFunction[{}] = 0
        /\ valueFunction[{"robotEngagement"}] = 15
        /\ valueFunction[{"adaptiveDifficulty"}] = 20
        /\ valueFunction[{"robotEngagement", "adaptiveDifficulty"}] = 45
        /\ shapleyResult.values["robotEngagement"] = FracOfInt(20)
        /\ shapleyResult.values["adaptiveDifficulty"] = FracOfInt(25)
        /\ shapleyResult.totalValue = 45
        /\ SumOfShapley = FracOfInt(45)
        /\ shapleyResult.interactionValue = 10

C6_Witness ==
    /\ Done
    /\ model = robotPlusAdaptive
    /\ activeComponents = <<"adaptiveDifficulty", "robotEngagement">>
    /\ shapleyResult.totalValue = 45

\* x, a fraction of hundredths, rounds to the whole number of hundredths h
RoundsTo(x, h) == 2 * Abs(x[1] - h * x[2]) <= x[2]

C8_EnumerationComplete ==
    Enumerated =>
        LET k == Len(activeComponents)
            subsets == powerSet(activeComponents)
        IN /\ Len(subsets) = 2 ^ k
           /\ Len(coalitions) = 2 ^ k
           /\ \A i, j \in DOMAIN coalitions : i # j => coalitions[i] # coalitions[j]
           /\ \A i \in DOMAIN coalitions : coalitions[i] = Range(subsets[i])
           /\ Range(coalitions) = SUBSET Active
           /\ {} \in Range(coalitions)
           /\ Active \in Range(coalitions)

C8_Witness ==
    /\ Enumerated
    /\ Len(activeComponents) = 4
    /\ Len(coalitions) = 16

\* C9: in the result every component identifier has an entry, and the entry
\* of an identifier that is not active is exactly 0, whatever the value
\* function.
C9_InactiveZero ==
    Done =>
        /\ DOMAIN shapleyResult.values = ComponentIds
        /\ \A c \in ComponentIds \ Active : shapleyResult.values[c] = Zero

C9_Witness ==
    /\ Done
    /\ Active # {}
    /\ \E c \in ComponentIds \ Active :
         /\ valueFunction[Active \cup {c}] # valueFunction[Active]
         /\ shapleyResult.values[c] = Zero

\* C10: the result's totalValue is the value function applied to the set of
\* all active components.
C10_TotalIsGrandCoalition ==
    Done => shapleyResult.totalValue = valueFunction[Active]

C10_Witness ==
    /\ Done
    /\ Active # {}
    /\ valueFunction[Active] # valueFunction[ComponentIds]
    /\ valueFunction[Active] # 0
    /\ shapleyResult.totalValue = valueFunction[Active]

\* the sum, over the members c of a set, of the value function's value on {c}
RECURSIVE SumOfSingletons(_, _)
SumOfSingletons(vf, ids) ==
    IF ids = {} THEN 0
    ELSE LET c == CHOOSE x \in ids : TRUE
         IN vf[{c}] + SumOfSingletons(vf, ids \ {c})

\* C11: the result's interactionValue is totalValue minus the sum, over the
\* active components, of the value function applied to the coalition holding
\* that component alone.
C11_InteractionValue ==
    Done => shapleyResult.interactionValue
              = shapleyResult.totalValue - SumOfSingletons(valueFunction, Active)

C11_Witness ==
    /\ Done
    /\ Cardinality(Active) >= 2
    /\ SumOfSingletons(valueFunction, Active) # 0
    /\ shapleyResult.interactionValue # 0
    /\ shapleyResult.interactionValue
         = shapleyResult.totalValue - SumOfSingletons(valueFunction, Active)

\* the sum of the result's values minus its totalValue
Discrepancy == FracAdd(SumOfShapley, FracOfInt(-shapleyResult.totalValue))

\* |Discrepancy| < 1e-10: with Discrepancy = n / m and epsilon = 1 / e,
\* |n| * e < m, decided on the quotient and remainder of m by e
WithinTolerance ==
    LET a == Abs(Discrepancy[1])
        q == Discrepancy[2] \div epsilon[2]
        r == Discrepancy[2] % epsilon[2]
    IN q > a \/ (q = a /\ r > 0)

\* C12: verifyEfficiencyAxiom returns true when the absolute difference
\* between the sum of the result's values and its totalValue is below the
\* tolerance 1e-10 (a difference of 1e-10 itself is not) and false otherwise;
\* every call returns one of the two, and the result is left as it was.
C12_VerifyEfficiencyAxiom ==
    [][verified' # verified =>
         /\ verified' = <<WithinTolerance>>
         /\ shapleyResult' = shapleyResult]_vars

C12_Witness ==
    /\ verified = <<TRUE>>
    /\ Discrepancy # Zero

\* C13: for the empty list computeShapleyValues returns a result whose
\* values are all 0 and whose totalValue is the value of the empty coalition,
\* and it calls factorial not once (so computes no weight).
C13_EmptyActiveSet ==
    Done /\ activeComponents = << >> =>
        /\ \A c \in ComponentIds : shapleyResult.values[c] = Zero
        /\ shapleyResult.totalValue = valueFunction[{}]
        /\ factorialCalls = 0
        /\ factorialCache = << >>

C13_Witness ==
    /\ Done
    /\ activeComponents = << >>
    /\ valueFunction[{}] # 0
    /\ shapleyResult.totalValue = valueFunction[{}]
    /\ factorialCalls = 0

\* computeShapleyValues has been called and has ended
Called == Done \/ thrown # NoError

\* the coalitions the engine evaluates on which the value function fails
FailsOn == (SUBSET Active) \ DOMAIN valueFunction

\* C14: when the value function fails on a coalition the engine evaluates,
\* the call of computeShapleyValues ends with that failure and returns no
\* result; when it fails on none, the call returns a result.
C14_FailurePropagates ==
    Called =>
        IF FailsOn = {}
        THEN Done /\ thrown = NoError
        ELSE /\ shapleyResult = NoResult
             /\ Len(thrown) = 1
             /\ thrown[1] \in FailsOn

C14_Witness ==
    /\ Called
    /\ Cardinality(Active) >= 2
    /\ FailsOn # {}
    /\ shapleyResult = NoResult
    /\ thrown # NoError

\* createValueFunction has been called
Created == model # NoModel /\ valueFunction # << >>

\* the base effect of a component if it is in the coalition, else 0
BaseIn(coalition, c) == IF c \in coalition THEN model.baseEffects[c] ELSE 0

\* the listed interactions whose two components are both in the coalition
InteractionsWithin(coalition) ==
    {k \in DOMAIN model.interactions :
        {model.interactions[k].components[1], model.interactions[k].components[2]} \subseteq coalition}

RECURSIVE SumOfEffects(_)
SumOfEffects(listed) ==
    IF listed = {} THEN 0
    ELSE LET k == CHOOSE x \in listed : TRUE
         IN model.interactions[k].effect + SumOfEffects(listed \ {k})

\* C15: the function createValueFunction(model) returns gives every coalition
\* the sum of the base effects of its members plus the sum of the effects of
\* exactly those listed interactions whose two components are both in the
\* coalition, and so gives the empty coalition 0.
C15_ValueFunctionOfModel ==
    Created =>
        /\ DOMAIN valueFunction = Coalitions
        /\ \A coalition \in Coalitions :
              valueFunction[coalition]
                = BaseIn(coalition, "robotEngagement") + BaseIn(coalition, "adaptiveDifficulty")
                  + BaseIn(coalition, "caregiverInvolvement") + BaseIn(coalition, "gameScaffolding")
                  + SumOfEffects(InteractionsWithin(coalition))
        /\ valueFunction[{}] = 0

C15_Witness ==
    /\ Created
    /\ Len(model.interactions) = 2
    /\ \E coalition \in Coalitions :
          /\ Cardinality(InteractionsWithin(coalition)) = 1
          /\ valueFunction[coalition]
                = BaseIn(coalition, "robotEngagement") + BaseIn(coalition, "adaptiveDifficulty")
                  + BaseIn(coalition, "caregiverInvolvement") + BaseIn(coalition, "gameScaffolding")
                  + SumOfEffects(InteractionsWithin(coalition))
          /\ valueFunction[coalition] # valueFunction[ComponentIds]

\* C16: whatever was called before and whatever the factorial cache held,
\* the result of a call of computeShapleyValues is the result the call gives
\* on an empty cache, so the same for the same list on every call; and the
\* value function is as it was created: of the engine's calls only the
\* factorial cache keeps a trace.
C16_Deterministic ==
    Done =>
        /\ shapleyResult = computeShapleyValues(activeComponents, valueFunction, << >>).result
        /\ valueFunction = createValueFunction(model)
        /\ DOMAIN factorialCache \subseteq 2..Len(ALL_COMPONENTS)
        /\ \A n \in DOMAIN factorialCache : factorialCache[n] = factorial(<< >>, n).value

C16_Witness ==
    /\ Done
    /\ Len(activeComponents) = 2
    /\ 4 \in DOMAIN factorialCache
    /\ shapleyResult.interactionValue # 0
    /\ shapleyResult = computeShapleyValues(activeComponents, valueFunction, << >>).result

\* a call on another ordering of the components of the call before
Reordered == Done /\ Range(activeComponents') = Range(activeComponents)

\* two doubles of one exponent at most two units in the last place apart
NearlyEqual(x, y) ==
    \/ x = y
    \/ /\ x.exp = y.exp
       /\ \E ulps \in 1..2 : \/ AddBits(x.bits, BitsOf(ulps, 2), 1, 0) = y.bits
                            \/ AddBits(y.bits, BitsOf(ulps, 2), 1, 0) = x.bits

Orderings(players) == {ordering \in DistinctLists : Range(ordering) = players}

\* the components before c in an ordering
Predecessors(ordering, c) ==
    {ordering[i] : i \in {j \in DOMAIN ordering : \E k \in DOMAIN ordering : j < k /\ ordering[k] = c}}

\* what c adds to its predecessors in an ordering
MarginalContribution(ordering, c) ==
    valueFunction[Predecessors(ordering, c) \cup {c}] - valueFunction[Predecessors(ordering, c)]

RECURSIVE SumOfMarginals(_, _)
SumOfMarginals(orderings, c) ==
    IF orderings = {} THEN 0
    ELSE LET ordering == CHOOSE x \in orderings : TRUE
         IN MarginalContribution(ordering, c) + SumOfMarginals(orderings \ {ordering}, c)

\* C18: the value the engine gives a component is the average, over all
\* orderings of the active components, of what the component adds to its
\* predecessors; and the weight of a coalition of s of the other components
\* is the fraction of the orderings in which exactly that coalition precedes
\* the component.
C18_OrderingDefinition ==
    Done =>
        \A c \in Active :
            /\ shapleyResult.values[c]
                 = Frac(SumOfMarginals(Orderings(Active), c), Cardinality(Orderings(Active)))
            /\ \A S \in SUBSET (Active \ {c}) :
                 WeightStep(<< >>, Cardinality(S), Cardinality(Active)).weight
                   = Frac(Cardinality({ordering \in Orderings(Active) : Predecessors(ordering, c) = S}),
                          Cardinality(Orderings(Active)))

C18_Witness ==
    /\ Done
    /\ Cardinality(Active) >= 3
    /\ \E c \in Active :
          /\ \E p, q \in Orderings(Active) : MarginalContribution(p, c) # MarginalContribution(q, c)
          /\ shapleyResult.values[c]
               = Frac(SumOfMarginals(Orderings(Active), c), Cardinality(Orderings(Active)))

\* C19 as stated: for each component of an n-component game the value
\* function is invoked exactly 2^(n-1) times, once per subset of the other
\* components.
C19_OncePerSubset ==
    Done => \A c \in Active : valueFunctionCalls[c] = 2 ^ (Cardinality(Active) - 1)

\* C19, amended: for each component of an n-component game the value
\* function is invoked exactly 2^n times, twice per subset of the other
\* components (on the subset with the component, then on the subset), and
\* nothing is remembered from one component to the next or to the totals:
\* a call of computeShapleyValues invokes it n * 2^n + 1 + n times in all.
C19_TwicePerSubset ==
    Done =>
        /\ \A c \in Active : valueFunctionCalls[c] = 2 * Cardinality(SUBSET (Active \ {c}))
        /\ \A c \in ComponentIds \ Active : valueFunctionCalls[c] = 0
        /\ finalCalls = 1 + Cardinality(Active)

C19_Witness ==
    /\ Done
    /\ Cardinality(Active) = 3
    /\ \E c \in Active : valueFunctionCalls[c] = 8

\* the number whose binary digits are 1 at exactly the given positions
RECURSIVE SumOfPowers(_)
SumOfPowers(positions) ==
    IF positions = {} THEN 0
    ELSE LET i == CHOOSE x \in positions : TRUE
         IN 2 ^ i + SumOfPowers(positions \ {i})

\* the indices, from 0, of the members of the list that are in the subset
IndicesOf(subset) ==
    {i \in 0..(Len(activeComponents) - 1) : activeComponents[i + 1] \in Range(subset)}

\* C20: powerSet yields the subsets of a sequence of k components in the
\* order of binary counting: the j-th subset, j = 0 .. 2^k - 1, holds the
\* component at index i exactly when bit i of j is 1 (so the indices of its
\* members are the binary digits of j), its members in input order; the
\* first subset is empty, the last is the whole sequence, and a second
\* enumeration yields the same order.
C20_BinaryCounting ==
    Enumerated =>
        /\ Len(yielded) = 2 ^ Len(activeComponents)
        /\ \A j \in 0..(2 ^ Len(activeComponents) - 1) :
              /\ SumOfPowers(IndicesOf(yielded[j + 1])) = j
              /\ yielded[j + 1] = SelectSeq(activeComponents, LAMBDA c : c \in Range(yielded[j + 1]))
        /\ yielded[1] = << >>
        /\ yielded[Len(yielded)] = activeComponents
        /\ yielded = powerSet(activeComponents)

C20_Witness ==
    /\ Enumerated
    /\ Len(activeComponents) = 3
    /\ activeComponents[1] = "gameScaffolding"
    /\ yielded[6] = <<activeComponents[1], activeComponents[3]>>
    /\ yielded[7] = <<activeComponents[2], activeComponents[3]>>

\* the calls of the value function a followed call has made so far
RECURSIVE SumOfCalls(_)
SumOfCalls(ids) ==
    IF ids = {} THEN 0
    ELSE LET c == CHOOSE x \in ids : TRUE
         IN valueFunctionCalls[c] + SumOfCalls(ids \ {c})

Evaluations == SumOfCalls(ComponentIds) + finalCalls

\* C21: for every list of distinct components and every total value
\* function, powerSet's loop never goes beyond its 2^(n-1) subsets and the
\* call of computeShapleyValues comes to its end with a result, the one the
\* whole call gives, after n * 2^n + n + 1 evaluations of the value function.
C21_Termination ==
    /\ [](frame.pc = "loop" /\ frame.k <= Len(activeComponents)
            => frame.mask <= 2 ^ (Len(activeComponents) - 1))
    /\ <>(/\ frame.pc = "done"
          /\ Done
          /\ shapleyResult = computeShapleyValues(activeComponents, valueFunction, << >>).result
          /\ Evaluations = Len(activeComponents) * 2 ^ Len(activeComponents)
                             + Len(activeComponents) + 1)

C21_Witness ==
    /\ frame.pc = "done"
    /\ Done
    /\ Len(activeComponents) = 4
    /\ Evaluations = 69

\* n! as a product
RECURSIVE Product(_)
Product(n) == IF n <= 0 THEN 1 ELSE n * Product(n - 1)

\* C22: whatever calls of factorial were made, one after another or side by
\* side, every entry of the cache maps a key k >= 2 to k!; a step never
\* removes an entry or changes its value (a key set again is set to the same
\* value); and a call that returns, returns the factorial of its argument,
\* as does factorial(n) on the cache as it stands, for cached and uncached n.
C22_CacheConsistent ==
    /\ [](/\ \A k \in DOMAIN factorialCache : k >= 2 /\ factorialCache[k] = Product(k)
          /\ \A i \in Callers : invocations[i].returned # << >> =>
                invocations[i].returned = <<Product(invocations[i].argument)>>
          /\ \A n \in 0..MaxArgument : factorial(factorialCache, n).value = Product(n))
    /\ [][\A k \in DOMAIN factorialCache :
             k \in DOMAIN factorialCache' /\ factorialCache'[k] = factorialCache[k]]_vars

C22_Witness ==
    /\ rewritten # {}
    /\ DOMAIN factorialCache = 2..MaxArgument
    /\ \E i \in Callers : invocations[i].returned = <<Product(MaxArgument)>>
    /\ \E i \in Callers : invocations[i].argument = 3 /\ invocations[i].returned = <<6>>

\* C23: for any value function, one with a non-zero value of the empty
\* coalition included, and any non-empty list of distinct active components,
\* the Shapley values returned sum to the value of the grand coalition less
\* the value of the empty coalition; so verifyEfficiencyAxiom accepts the
\* result exactly when the value of the empty coalition is 0.
C23_EfficiencyLessEmpty ==
    (Done /\ activeComponents # << >>) =>
        /\ SumOfShapley = FracOfInt(valueFunction[Active] - valueFunction[{}])
        /\ verifyEfficiencyAxiom(shapleyResult) <=> (valueFunction[{}] = 0)

C23_Witness ==
    /\ Done
    /\ Len(activeComponents) >= 2
    /\ valueFunction[{}] # 0
    /\ valueFunction[Active] # valueFunction[{}]
    /\ SumOfShapley = FracOfInt(valueFunction[Active] - valueFunction[{}])
    /\ ~verifyEfficiencyAxiom(shapleyResult)

\* twice what the listed interactions from the k-th on add to the Shapley
\* value of c: the effect of an interaction of c with another active
\* component (half of it, twice), twice the effect of one of c with itself
RECURSIVE TwiceShareOfInteractions(_, _)
TwiceShareOfInteractions(c, k) ==
    IF k > Len(model.interactions) THEN 0
    ELSE LET pair == model.interactions[k].components
             effect == model.interactions[k].effect
         IN (CASE pair = <<c, c>> -> 2 * effect
               [] pair # <<c, c>> /\ c \in Range(pair) /\ Range(pair) \subseteq Active -> effect
               [] OTHER -> 0)
            + TwiceShareOfInteractions(c, k + 1)

\* C24: for a value function built by createValueFunction, the Shapley value
\* of each active component c is baseEffects[c] plus half the effect of every
\* listed interaction between c and another component that is active too
\* (and the whole effect of an interaction listed between c and itself); so
\* under DEFAULT_CAUSAL_MODEL robotEngagement gets 0.15 alone and 0.25 with
\* adaptiveDifficulty, and more whenever adaptiveDifficulty is active too.
C24_BasePlusHalfInteractions ==
    (Done /\ model # NoModel) =>
        /\ \A c \in Active :
              shapleyResult.values[c]
                = Frac(2 * model.baseEffects[c] + TwiceShareOfInteractions(c, 1), 2)
        /\ (model = DEFAULT_CAUSAL_MODEL /\ "robotEngagement" \in Active) =>
              /\ Active = {"robotEngagement"} =>
                    shapleyResult.values["robotEngagement"] = FracOfInt(15)
              /\ Active = {"robotEngagement", "adaptiveDifficulty"} =>
                    shapleyResult.values["robotEngagement"] = FracOfInt(25)
              /\ shapleyResult.values["robotEngagement"]
                   = FracOfInt(15 + (IF "adaptiveDifficulty" \in Active THEN 10 ELSE 0)
                                  + (IF "caregiverInvolvement" \in Active THEN 6 ELSE 0))

C24_Witness ==
    /\ Done
    /\ model # NoModel
    /\ model # DEFAULT_CAUSAL_MODEL
    /\ Len(activeComponents) = 3
    /\ Len(model.interactions) = 2
    /\ \E c \in Active, d \in Active, e \in ComponentIds \ Active :
          /\ c # d
          /\ model.interactions[1].components = <<d, c>>
          /\ model.interactions[2].components = <<c, e>>
          /\ shapleyResult.values[c] = Frac(2 * model.baseEffects[c] - 5, 2)
          /\ shapleyResult.values[d] = Frac(2 * model.baseEffects[d] - 5, 2)

\* both sums of TOTALS are complete
TotalsComputed ==
    /\ TOTALS.shapleyDone = Len(INTERVENTION_ACTIONS)
    /\ TOTALS.rlCreditDone = Len(INTERVENTION_ACTIONS)

\* C25 as stated: the Shapley values of the 15 sample actions sum to the
\* reported total effect: TOTALS.shapleySum equals
\* INTERVENTION_SUMMARY.outcomeImprovement, 0.35.
C25_ShapleySumIsOutcome ==
    TotalsComputed =>
        /\ Len(INTERVENTION_ACTIONS) = INTERVENTION_SUMMARY.totalActions
        /\ TOTALS.shapleySum = INTERVENTION_SUMMARY.outcomeImprovement
        /\ TOTALS.shapleySum = 35

Simulated == simulationResult # NoSimulation

\* the value of the coalition of the active components
ValueOfActive == FracOfInt(valueFunction[Active])

\* the gain a pass of the loop adds before the cap, by its outcome
GainOf(correct) ==
    FracMul(Frac(ValueOfActive[1], config.numTrials),
            IF correct THEN Frac(6, 5) ELSE Frac(4, 5))

\* the skill level recorded after the i-th trial: that of trial i + 1, or
\* finalSkill after the last
SkillAfter(i) ==
    IF i < Len(simulationResult.trials) THEN simulationResult.trials[i + 1].skillLevel
    ELSE simulationResult.finalSkill

\* C26: whatever the outcomes of the trials, runSimulation with numTrials >= 1,
\* an initial skill between 0 and 1 and a coalition value of 0 or more
\* returns numTrials trials numbered 1..numTrials, the first at the initial
\* skill; the recorded skill levels never fall and never exceed 1.0; each
\* pass adds 1.2 or 0.8 times value / numTrials, capped at 1.0; so
\* finalSkill - initialSkill lies between min(1 - initialSkill, 0.8 value)
\* and min(1 - initialSkill, 1.2 value); and learningGain is
\* finalSkill - initialSkill.
C26_RunSimulation ==
    Simulated =>
        LET trials == simulationResult.trials
            gain == FracSub(simulationResult.finalSkill, config.initialSkill)
            room == FracSub(FullSkill, config.initialSkill)
        IN /\ Len(trials) = config.numTrials
           /\ \A i \in DOMAIN trials : trials[i].trialNumber = i
           /\ trials[1].skillLevel = config.initialSkill
           /\ simulationResult.initialSkill = config.initialSkill
           /\ \A i \in DOMAIN trials :
                 /\ FracLeq(trials[i].skillLevel, SkillAfter(i))
                 /\ FracLeq(SkillAfter(i), FullSkill)
                 /\ SkillAfter(i) = FracMin(FullSkill, FracAdd(trials[i].skillLevel,
                                                               GainOf(trials[i].correct)))
           /\ FracLeq(FracMin(room, FracMul(Frac(4, 5), ValueOfActive)), gain)
           /\ FracLeq(gain, FracMin(room, FracMul(Frac(6, 5), ValueOfActive)))
           /\ simulationResult.learningGain = gain

C26_Witness ==
    /\ Simulated
    /\ config.numTrials = 3
    /\ config.initialSkill = FracOfInt(20)
    /\ simulationResult.trials[1].correct
    /\ ~simulationResult.trials[2].correct
    /\ FracLeq(simulationResult.trials[3].skillLevel, FracOfInt(99))
    /\ simulationResult.finalSkill = FullSkill
    /\ simulationResult.learningGain = FracOfInt(80)

\* no identifier occurs twice in the list
NoDuplicates(list) == \A i, j \in DOMAIN list : list[i] = list[j] => i = j

C28_CallerGuard ==
    /\ [](/\ \A k \in DOMAIN timers : timers[k].activeComponents # << >>
          /\ invoked # << >> => invoked[1] # << >>)
    /\ [][activeComponents = << >> =>
            /\ isRunning' => isRunning
            /\ Len(timers') <= Len(timers)]_vars

C28_Witness ==
    /\ activeComponents = << >>
    /\ ~isRunning
    /\ timers = << >>
    /\ invoked = << <<"adaptiveDifficulty">> >>
    /\ shapleyResult.totalValue = 18

\* the results the callback computes on the list it holds
ComputedFrom(captured) ==
    /\ shapleyResult = computeShapleyValues(captured, valueFunction, << >>).result
    /\ insight = generateInsight(captured, shapleyResult.values)
    /\ Len(simulationResult.trials) = numTrials
    /\ \A i \in DOMAIN simulationResult.trials :
          simulationResult.trials[i].activeComponents = captured
    /\ simulationResult.learningGain
         = FracSub(simulationResult.finalSkill, initialSkill)
    /\ FracLeq(FracMin(FracOfInt(80), Frac(4 * valueFunction[Range(captured)], 5)),
               simulationResult.learningGain)
    /\ FracLeq(simulationResult.learningGain,
               FracMin(FracOfInt(80), Frac(6 * valueFunction[Range(captured)], 5)))

\* C29: a run click with an active component sets isRunning and schedules
\* one callback; isRunning is true exactly while that callback is pending,
\* and never more than one is; when it runs, simulationResult, shapleyResult
\* and insight are replaced in the one step that sets isRunning to false,
\* and at no other step; and every run started is completed.
C29_RunLifecycle ==
    /\ [](/\ Len(timers) <= 1
          /\ isRunning <=> timers # << >>)
    /\ [][/\ (~isRunning /\ isRunning') =>
               /\ activeComponents # << >>
               /\ timers' = <<[activeComponents |-> activeComponents]>>
               /\ UNCHANGED <<activeComponents, simulationResult, shapleyResult, insight>>
          /\ (\/ simulationResult' # simulationResult
              \/ shapleyResult' # shapleyResult
              \/ insight' # insight
              \/ (isRunning /\ ~isRunning')) =>
               /\ isRunning /\ ~isRunning'
               /\ timers' = << >>
               /\ simulationResult' # NoSimulation
               /\ shapleyResult' # NoResult
               /\ insight' # InitialInsight
               /\ invoked' = <<timers[1].activeComponents>>]_vars
    /\ [](invoked # << >> => ComputedFrom(invoked[1]))
    /\ (isRunning ~> ~isRunning)

C29_Witness ==
    /\ isRunning
    /\ Len(timers) = 1
    /\ timers[1].activeComponents = <<"adaptiveDifficulty", "robotEngagement">>
    /\ insight.kind = "single"
    /\ shapleyResult.totalValue = 15

\* the ShapleyChart shows a result
ChartShown == shapleyResult # NoResult /\ activeComponents # << >>

\* the sum of the values the chart shows, those of the active components
RECURSIVE ShownSum(_)
ShownSum(k) ==
    IF k > Len(activeComponents) THEN Zero
    ELSE FracAdd(shapleyResult.values[activeComponents[k]], ShownSum(k + 1))

\* C30 as stated: the results a run stores are computed from the active
\* components as they were at the run click, whatever was toggled since; and
\* whenever the chart shows a result, the values it shows for the active
\* components sum to the shown total only if the active set is the set of
\* that click.
C30_SumOnlyIfUnchanged ==
    invoked # << >> =>
        /\ simulationResult.trials[1].activeComponents = invoked[1]
        /\ (ChartShown /\ ShownSum(1) = FracOfInt(shapleyResult.totalValue)) =>
              Range(activeComponents) = Range(invoked[1])

\* C30, amended: the results a run stores are computed from the active
\* components as they were at the run click, whatever was toggled since; and
\* whenever the chart shows a result, the values it shows sum to the shown
\* total exactly when every component of that click's set is still active (a
\* component added since is shown with the value 0).
C30_SnapshotConsistency ==
    /\ [][Len(timers') > Len(timers) =>
            timers' = Append(timers, [activeComponents |-> activeComponents])]_vars
    /\ [](invoked # << >> =>
            /\ ComputedFrom(invoked[1])
            /\ \A c \in ComponentIds \ Range(invoked[1]) : shapleyResult.values[c] = Zero
            /\ ChartShown =>
                  (ShownSum(1) = FracOfInt(shapleyResult.totalValue)
                     <=> Range(invoked[1]) \subseteq Range(activeComponents)))

C30_Witness ==
    /\ ChartShown
    /\ invoked = << <<"robotEngagement">> >>
    /\ activeComponents = <<"robotEngagement", "adaptiveDifficulty">>
    /\ ShownSum(1) = FracOfInt(shapleyResult.totalValue)
    /\ shapleyResult.totalValue = 15

====
